---- MODULE Spec2Model ----
(***************************************************************************)
(* A model of cnfatal/proxy: the rule matcher, the per-connection handler  *)
(* with its relay, the nftables / policy-routing manager and the           *)
(* HTTP-CONNECT upstream connector.                                        *)
(*                                                                         *)
(* Each subsystem has its own specification (SpecMatch, SpecConn, ...)     *)
(* over the shared variables; the variables of the other subsystems are    *)
(* parked at a fixed value.                                                *)
(***************************************************************************)
EXTENDS Integers, Sequences, FiniteSets, TLC

VARIABLES
    rules,      \* Matcher.rules: the ordered rule list
    query,      \* the (domain, ip) of the last Match call, or NoQuery
    result,     \* the MatchResult of the last Match call, or NoResult
    upstream,   \* TransparentProxy.upstream: "nil", or the scheme of its URL
    conns,      \* per accepted connection: the handler, its sockets, its relay
    kernel,     \* the kernel: the nftables table, the ip rule, the route
    mgr,        \* iptables.Manager and the position of its Setup / Cleanup
    creds,      \* the real and the effective user id of the process
    pkt,        \* the last packet seen by the output hook and its verdict
    parse,      \* the input and the result of a ParseRule / ParseRules call
    proc,       \* main: its position, its mode, the signals, the exit
    tp,         \* TransparentProxy at run time: Start, Stop, the listener
    hs,         \* the handlers of the connections the accept loop hands out
    http        \* Upstream.connectHTTP: the handshake, the socket, the reader

matchVars == <<rules, query, result, parse>>
connVars == <<upstream, conns>>
mgrVars == <<kernel, mgr, creds, pkt>>
srvVars == <<proc, tp, hs>>
vars == <<rules, query, result, upstream, conns, kernel, mgr, creds, pkt, http,
          parse, proc, tp, hs>>

----------------------------------------------------------------------------
(* Bounds *)

\* Longest rule list the matcher is built with.
MaxRules == 2
\* Width of an address in bits (a scaled-down IPv4 / IPv6 address).
AddrBits == 2
\* Bytes each peer of a connection sends in a behaviour.
MaxBytes == 1
\* Setup and Cleanup calls made on the manager in a behaviour.
MaxOps == 2
\* Bytes the upstream sends through the tunnel after its response header.
MaxPayload == 2
\* Size of the bufio.Reader buffer (scaled down), in bytes.
BufSize == 2
\* Longest slice the caller passes to Read.
MaxRead == 2
\* Most comma-separated fields in a rule line given to ParseRule.
MaxFields == 4
\* Longest list of rule lines given to ParseRules.
MaxLines == 3

----------------------------------------------------------------------------
(* Strings are sequences of one-character strings. *)

Chars == {"a", "b", "A", "B", "."}

\* unicode.ToLower on the alphabet
LowerCh(c) == CASE c = "A" -> "a" [] c = "B" -> "b" [] OTHER -> c

\* strings.ToLower
ToLower(s) == [i \in 1..Len(s) |-> LowerCh(s[i])]

\* an equality that tells upper case from lower case
EqualExact(s, t) == s = t

\* strings.EqualFold: equality under simple case folding, rune by rune
EqualFold(s, t) ==
    /\ Len(s) = Len(t)
    /\ \A i \in 1..Len(s) : LowerCh(s[i]) = LowerCh(t[i])

\* a suffix test that leaves out the first byte of the suffix
HasSuffixTail(s, suffix) ==
    /\ Len(s) >= Len(suffix) - 1
    /\ SubSeq(s, Len(s) - Len(suffix) + 2, Len(s)) = Tail(suffix)

\* strings.HasSuffix
HasSuffix(s, suffix) ==
    /\ Len(s) >= Len(suffix)
    /\ SubSeq(s, Len(s) - Len(suffix) + 1, Len(s)) = suffix

\* strings.Contains
Contains(s, substr) ==
    \E i \in 1..(Len(s) - Len(substr) + 1) :
        SubSeq(s, i, i + Len(substr) - 1) = substr

----------------------------------------------------------------------------
(* Addresses and networks *)

\* a nil net.IP / a nil *net.IPNet / a nil *Rule
NilIP == [fam |-> "nil", addr |-> 0]
NilNet == [fam |-> "nil", base |-> 0, bits |-> 0]
NoRule == 0

Pow2(n) == IF n = 0 THEN 1 ELSE 2 ^ n

MkIP(f, a) == [fam |-> f, addr |-> a % Pow2(AddrBits)]
MkNet(f, b, n) == [fam |-> f, base |-> b % Pow2(AddrBits), bits |-> n]

\* a Contains that compares the bits and not the address family
NetContainsAnyFamily(network, ip) ==
    (ip.addr \div Pow2(AddrBits - network.bits))
        = (network.base \div Pow2(AddrBits - network.bits))

\* net.IPNet.Contains: false when the families differ, else the masked
\* address equals the masked base.
NetContains(network, ip) ==
    /\ network.fam = ip.fam
    /\ (ip.addr \div Pow2(AddrBits - network.bits))
         = (network.base \div Pow2(AddrBits - network.bits))

----------------------------------------------------------------------------
(* config.Policy and rules.RuleType *)

PolicyProxy == "PROXY"
PolicyDirect == "DIRECT"
PolicyReject == "REJECT"
Policies == {PolicyProxy, PolicyDirect, PolicyReject}

RuleTypeDomain == "DOMAIN"
RuleTypeDomainSuffix == "DOMAIN-SUFFIX"
RuleTypeDomainKeyword == "DOMAIN-KEYWORD"
RuleTypeIPCIDR == "IP-CIDR"
RuleTypeIPCIDR6 == "IP-CIDR6"
RuleTypeMatch == "MATCH"

\* rules.Rule
Rule(t, v, p, n) == [Type |-> t, Value |-> v, Policy |-> p, Network |-> n]

----------------------------------------------------------------------------
(* Matcher *)

\* Matcher.matchRule, with the domain already lowered by Match
matchRule(rule, domain, ip) ==
    CASE rule.Type = RuleTypeDomain ->
            EqualFold(domain, rule.Value)
      [] rule.Type = RuleTypeDomainSuffix ->
            LET suffix == ToLower(rule.Value) IN
            \/ domain = suffix
            \/ HasSuffix(domain, <<".">> \o suffix)
      [] rule.Type = RuleTypeDomainKeyword ->
            Contains(domain, ToLower(rule.Value))
      [] rule.Type \in {RuleTypeIPCIDR, RuleTypeIPCIDR6} ->
            IF ip = NilIP \/ rule.Network = NilNet
            THEN FALSE
            ELSE NetContains(rule.Network, ip)
      [] rule.Type = RuleTypeMatch -> TRUE
      [] OTHER -> FALSE

\* the loop of Matcher.Match from rule i on: the first rule that matches
\* decides; DIRECT with no rule when none does
RECURSIVE MatchFrom(_, _, _, _)
MatchFrom(rs, i, domain, ip) ==
    IF i > Len(rs)
    THEN [Policy |-> PolicyDirect, Rule |-> NoRule]
    ELSE IF matchRule(rs[i], domain, ip)
         THEN [Policy |-> rs[i].Policy, Rule |-> i]
         ELSE MatchFrom(rs, i + 1, domain, ip)

\* a Match in which a later matching rule overrides an earlier one
RECURSIVE MatchLastFrom(_, _, _, _)
MatchLastFrom(rs, i, domain, ip) ==
    IF i < 1
    THEN [Policy |-> PolicyDirect, Rule |-> NoRule]
    ELSE IF matchRule(rs[i], domain, ip)
         THEN [Policy |-> rs[i].Policy, Rule |-> i]
         ELSE MatchLastFrom(rs, i - 1, domain, ip)

MatchLast(rs, domain, ip) == MatchLastFrom(rs, Len(rs), ToLower(domain), ip)

\* a Match that falls back to the policy of the last rule when none matches
MatchDefaultLast(rs, domain, ip) ==
    LET r == MatchFrom(rs, 1, ToLower(domain), ip) IN
    IF r.Rule = NoRule /\ Len(rs) > 0
    THEN [Policy |-> rs[Len(rs)].Policy, Rule |-> NoRule]
    ELSE r

\* Matcher.Match: MatchResult{Policy, Rule}; Rule is the position of the
\* matched rule in the list (NoRule for nil)
Match(rs, domain, ip) == MatchFrom(rs, 1, ToLower(domain), ip)

----------------------------------------------------------------------------
(* Inputs of the matcher specification *)

DomainValues == {<<"a">>, <<"B", ".", "a">>}
Networks4 == {NilNet, MkNet("v4", 0, 0), MkNet("v4", 2, 1)}
Networks6 == {MkNet("v6", 1, AddrBits)}

RuleUniverse ==
    {Rule(t, v, p, NilNet) :
        t \in {RuleTypeDomain, RuleTypeDomainSuffix, RuleTypeDomainKeyword},
        v \in DomainValues, p \in Policies}
    \cup {Rule(RuleTypeIPCIDR, <<>>, p, n) : p \in Policies, n \in Networks4}
    \cup {Rule(RuleTypeIPCIDR6, <<>>, p, n) : p \in Policies, n \in Networks6}
    \cup {Rule(RuleTypeMatch, <<>>, p, NilNet) : p \in Policies}
    \cup {Rule("GEOIP", <<"a">>, PolicyReject, NilNet)}

RuleLists == UNION {[1..n -> RuleUniverse] : n \in 0..MaxRules}

Domains == {<<>>, <<"a">>, <<"A">>, <<"b", ".", "a">>, <<"b", "a">>, <<"a", ".", "b">>}
IPs == {NilIP, MkIP("v4", 0), MkIP("v4", 3), MkIP("v6", 1)}

NoQuery == [domain |-> <<>>, ip |-> NilIP, asked |-> FALSE]
NoResult == [Policy |-> "none", Rule |-> NoRule]

----------------------------------------------------------------------------
(* rules.ParseRule and rules.ParseRules *)

Lowers == <<"a", "b", "c", "d", "e", "f", "g", "h", "i", "j", "k", "l", "m",
            "n", "o", "p", "q", "r", "s", "t", "u", "v", "w", "x", "y", "z">>
Uppers == <<"A", "B", "C", "D", "E", "F", "G", "H", "I", "J", "K", "L", "M",
            "N", "O", "P", "Q", "R", "S", "T", "U", "V", "W", "X", "Y", "Z">>
Digits == <<"0", "1", "2", "3", "4", "5", "6", "7", "8", "9">>

\* a ToUpper that keeps the letter case
KeepCh(c) == c

\* unicode.ToUpper on the letters a-z; every other rune is kept
UpperCh(c) ==
    IF \E i \in 1..Len(Lowers) : Lowers[i] = c
    THEN Uppers[CHOOSE i \in 1..Len(Lowers) : Lowers[i] = c]
    ELSE c

\* strings.ToUpper
ToUpper(s) == [i \in 1..Len(s) |-> UpperCh(s[i])]

\* unicode.IsSpace on the runes used here
IsSpace(c) == c \in {" ", "\t"}

\* strings.TrimSpace
RECURSIVE TrimLeft(_)
TrimLeft(s) ==
    IF s # <<>> /\ IsSpace(Head(s)) THEN TrimLeft(Tail(s)) ELSE s
RECURSIVE TrimRight(_)
TrimRight(s) ==
    IF s # <<>> /\ IsSpace(s[Len(s)])
    THEN TrimRight(SubSeq(s, 1, Len(s) - 1))
    ELSE s
TrimSpace(s) == TrimRight(TrimLeft(s))

\* strings.IndexByte, counted from 1; 0 when c does not occur
IndexByte(s, c) ==
    IF \E i \in 1..Len(s) : s[i] = c
    THEN CHOOSE i \in 1..Len(s) : s[i] = c /\ \A j \in 1..(i - 1) : s[j] # c
    ELSE 0

\* strings.Split(s, sep) for a one-byte separator
RECURSIVE Split(_, _)
Split(s, sep) ==
    LET i == IndexByte(s, sep) IN
    IF i = 0
    THEN <<s>>
    ELSE <<SubSeq(s, 1, i - 1)>> \o Split(SubSeq(s, i + 1, Len(s)), sep)

\* the Go string of a sequence of runes (RuleType(...), config.Policy(...))
RECURSIVE Cat(_)
Cat(cs) == IF cs = <<>> THEN "" ELSE Head(cs) \o Cat(Tail(cs))

IsDigit(c) == \E i \in 1..Len(Digits) : Digits[i] = c
DigitVal(c) == (CHOOSE i \in 1..Len(Digits) : Digits[i] = c) - 1

\* the decimal number a string of digits denotes
RECURSIVE Decimal(_)
Decimal(s) ==
    IF s = <<>> THEN 0
    ELSE 10 * Decimal(SubSeq(s, 1, Len(s) - 1)) + DigitVal(s[Len(s)])

\* net.ParseIP on the scaled addresses: one number below 2^AddrBits is an
\* IPv4 address, the same after a colon is an IPv6 address; nil otherwise
ParseIP(s) ==
    LET six == s # <<>> /\ Head(s) = ":"
        num == IF six THEN Tail(s) ELSE s
    IN IF /\ num # <<>>
          /\ \A i \in 1..Len(num) : IsDigit(num[i])
          /\ Decimal(num) < Pow2(AddrBits)
       THEN MkIP(IF six THEN "v6" ELSE "v4", Decimal(num))
       ELSE NilIP

\* a net.ParseCIDR that reports no error and returns no network
ParseCIDRLenient(s) == [err |-> FALSE, network |-> NilNet]

\* net.ParseCIDR: address "/" prefix length; the network it returns is the
\* address with the bits after the prefix cleared
ParseCIDR(s) ==
    LET i == IndexByte(s, "/")
        addr == SubSeq(s, 1, i - 1)
        mask == SubSeq(s, i + 1, Len(s))
        ip == ParseIP(addr)
    IN IF /\ i # 0
          /\ ip # NilIP
          /\ mask # <<>>
          /\ \A j \in 1..Len(mask) : IsDigit(mask[j])
          /\ Decimal(mask) <= AddrBits
       THEN LET n == Decimal(mask)
                low == Pow2(AddrBits - n)
            IN [err |-> FALSE, network |-> MkNet(ip.fam, (ip.addr \div low) * low, n)]
       ELSE [err |-> TRUE, network |-> NilNet]

\* a nil *Rule
NilRule == Rule("nil", <<>>, "nil", NilNet)

\* the (rule, error) pair ParseRule returns; err names the failing check
ParseOk(r) == [rule |-> r, err |-> "nil"]
ParseFail(e) == [rule |-> NilRule, err |-> e]

\* a ParseRule that takes any policy token
ValidPolicyAny(policy) == TRUE

\* parser.go lines 73-76: the policy is PROXY, DIRECT or REJECT
ValidPolicy(policy) == policy \in Policies

\* rules.ParseRule
ParseRule(ruleStr) ==
    LET str == TrimSpace(ruleStr)
        parts == Split(str, ",")
    IN
    IF Len(parts) < 2 THEN ParseFail("invalid rule format")
    ELSE
    LET ruleType == Cat(ToUpper(TrimSpace(parts[1]))) IN
    IF ruleType # RuleTypeMatch /\ Len(parts) < 3
    THEN ParseFail("invalid rule format, expected TYPE,VALUE,POLICY")
    ELSE
    LET value == IF ruleType = RuleTypeMatch THEN <<>> ELSE TrimSpace(parts[2])
        policyStr == IF ruleType = RuleTypeMatch
                     THEN TrimSpace(parts[2])
                     ELSE TrimSpace(parts[3])
        policy == Cat(ToUpper(policyStr))
    IN
    IF ~ValidPolicy(policy) THEN ParseFail("invalid policy")
    ELSE
    CASE ruleType \in {RuleTypeIPCIDR, RuleTypeIPCIDR6} ->
            LET c == ParseCIDR(value) IN
            IF c.err
            THEN ParseFail("invalid CIDR")
            ELSE ParseOk(Rule(ruleType, value, policy, c.network))
      [] ruleType \in {RuleTypeDomain, RuleTypeDomainSuffix,
                       RuleTypeDomainKeyword, RuleTypeMatch} ->
            ParseOk(Rule(ruleType, value, policy, NilNet))
      [] OTHER -> ParseFail("unsupported rule type")

\* a ParseRules that returns the rules parsed before the invalid line
RECURSIVE ParseRulesPartial(_, _, _)
ParseRulesPartial(ruleStrings, i, acc) ==
    IF i > Len(ruleStrings)
    THEN [rules |-> acc, isNil |-> FALSE, pos |-> 0, err |-> "nil"]
    ELSE LET r == ParseRule(ruleStrings[i]) IN
         IF r.err # "nil"
         THEN [rules |-> acc, isNil |-> FALSE, pos |-> i, err |-> r.err]
         ELSE ParseRulesPartial(ruleStrings, i + 1, Append(acc, r.rule))

\* the loop of rules.ParseRules from line i on, acc the rules appended so
\* far; pos is the 1-based position the error names, 0 without an error
RECURSIVE ParseRulesFrom(_, _, _)
ParseRulesFrom(ruleStrings, i, acc) ==
    IF i > Len(ruleStrings)
    THEN [rules |-> acc, isNil |-> FALSE, pos |-> 0, err |-> "nil"]
    ELSE LET r == ParseRule(ruleStrings[i]) IN
         IF r.err # "nil"
         THEN [rules |-> <<>>, isNil |-> TRUE, pos |-> i, err |-> r.err]
         ELSE ParseRulesFrom(ruleStrings, i + 1, Append(acc, r.rule))

\* rules.ParseRules
ParseRules(ruleStrings) == ParseRulesFrom(ruleStrings, 1, <<>>)

----------------------------------------------------------------------------
(* Inputs of the parser specification *)

\* A field of a rule line as it is written (text), with what the format
\* says it denotes: the text without surrounding whitespace (trim), the
\* canonical type or policy it spells in any letter case (canon, NoCanon
\* when it spells none) and the prefix it writes (network, NilNet when it
\* is not a valid prefix).
NoCanon == "none"
Tok(text, trim, canon, network) ==
    [text |-> text, trim |-> trim, canon |-> canon, network |-> network]

\* first fields: the six types in several spellings, an unknown type, nothing
TypeFields ==
    {Tok(<<"D", "O", "M", "A", "I", "N">>,
         <<"D", "O", "M", "A", "I", "N">>, RuleTypeDomain, NilNet),
     Tok(<<" ", "D", "O", "M", "A", "I", "N", " ">>,
         <<"D", "O", "M", "A", "I", "N">>, RuleTypeDomain, NilNet),
     Tok(<<"d", "o", "m", "a", "i", "n", "-", "s", "u", "f", "f", "i", "x">>,
         <<"d", "o", "m", "a", "i", "n", "-", "s", "u", "f", "f", "i", "x">>, RuleTypeDomainSuffix, NilNet),
     Tok(<<"D", "o", "m", "a", "i", "n", "-", "K", "e", "y", "w", "o", "r", "d">>,
         <<"D", "o", "m", "a", "i", "n", "-", "K", "e", "y", "w", "o", "r", "d">>, RuleTypeDomainKeyword, NilNet),
     Tok(<<"I", "P", "-", "C", "I", "D", "R">>,
         <<"I", "P", "-", "C", "I", "D", "R">>, RuleTypeIPCIDR, NilNet),
     Tok(<<"i", "p", "-", "c", "i", "d", "r", "6">>,
         <<"i", "p", "-", "c", "i", "d", "r", "6">>, RuleTypeIPCIDR6, NilNet),
     Tok(<<"M", "A", "T", "C", "H">>,
         <<"M", "A", "T", "C", "H">>, RuleTypeMatch, NilNet),
     Tok(<<" ", "m", "a", "t", "c", "h", "\t">>,
         <<"m", "a", "t", "c", "h">>, RuleTypeMatch, NilNet),
     Tok(<<"G", "E", "O", "I", "P">>,
         <<"G", "E", "O", "I", "P">>, NoCanon, NilNet),
     Tok(<<>>,
         <<>>, NoCanon, NilNet)}

\* value fields: domains, prefixes (valid, and with a length out of range), nothing
ValueFields ==
    {Tok(<<"a", ".", "B">>,
         <<"a", ".", "B">>, NoCanon, NilNet),
     Tok(<<" ", "a", " ">>,
         <<"a">>, NoCanon, NilNet),
     Tok(<<"3", "/", "1">>,
         <<"3", "/", "1">>, NoCanon, MkNet("v4", 2, 1)),
     Tok(<<":", "1", "/", "2">>,
         <<":", "1", "/", "2">>, NoCanon, MkNet("v6", 1, 2)),
     Tok(<<"3", "/", "9">>,
         <<"3", "/", "9">>, NoCanon, NilNet),
     Tok(<<>>,
         <<>>, NoCanon, NilNet)}

\* policy fields: the three policies in several spellings, an unknown one
PolicyFields ==
    {Tok(<<"P", "R", "O", "X", "Y">>,
         <<"P", "R", "O", "X", "Y">>, PolicyProxy, NilNet),
     Tok(<<"d", "i", "r", "e", "c", "t">>,
         <<"d", "i", "r", "e", "c", "t">>, PolicyDirect, NilNet),
     Tok(<<" ", "R", "e", "j", "e", "c", "t", " ">>,
         <<"R", "e", "j", "e", "c", "t">>, PolicyReject, NilNet),
     Tok(<<"I", "N", "V", "A", "L", "I", "D">>,
         <<"I", "N", "V", "A", "L", "I", "D">>, NoCanon, NilNet)}

\* a field after the third
ExtraFields == {Tok(<<"x">>, <<"x">>, NoCanon, NilNet)}

\* the fields that are tried at position k of a line
FieldsAt(k) ==
    CASE k = 1 -> TypeFields
      [] k = 2 -> ValueFields \cup PolicyFields
      [] k = 3 -> PolicyFields
      [] OTHER -> ExtraFields

\* the lists of n fields
RECURSIVE FieldLists(_)
FieldLists(n) ==
    IF n = 0 THEN {<<>>}
    ELSE {Append(fs, f) : fs \in FieldLists(n - 1), f \in FieldsAt(n)}

\* the line that writes the fields fs: their texts joined by commas
RECURSIVE Join(_)
Join(fs) ==
    IF Len(fs) = 0 THEN <<>>
    ELSE IF Len(fs) = 1 THEN fs[1].text
    ELSE fs[1].text \o <<",">> \o Join(Tail(fs))

\* the lines given to ParseRule, as field lists
LineFields == UNION {FieldLists(n) : n \in 1..MaxFields}

\* the lines the lists given to ParseRules are made of: three valid ones,
\* one with a field missing, one with a field too many, one of unknown type
ListLineFields ==
    {fs \in FieldLists(2) \cup FieldLists(3) \cup FieldLists(4) :
        Join(fs) \in
          {<<"M", "A", "T", "C", "H", ",", "d", "i", "r", "e", "c", "t">>,
           <<"D", "O", "M", "A", "I", "N", ",", "a", ".", "B", ",",
             "P", "R", "O", "X", "Y">>,
           <<"I", "P", "-", "C", "I", "D", "R", ",", "3", "/", "1", ",",
             "d", "i", "r", "e", "c", "t">>,
           <<"D", "O", "M", "A", "I", "N", ",", "a", ".", "B">>,
           <<"D", "O", "M", "A", "I", "N", ",", "a", ".", "B", ",",
             "P", "R", "O", "X", "Y", ",", "x">>,
           <<"G", "E", "O", "I", "P", ",", "a", ".", "B", ",",
             "P", "R", "O", "X", "Y">>}}
LineLists == UNION {[1..n -> ListLineFields] : n \in 0..MaxLines}

\* no ParseRule / ParseRules call made
NoParse ==
    [call |-> "none", fields |-> <<>>, lines |-> <<>>, done |-> FALSE,
     one |-> [rule |-> NilRule, err |-> "none"],
     all |-> [rules |-> <<>>, isNil |-> TRUE, pos |-> 0, err |-> "none"]]

\* the parser variable while another subsystem is checked
ParkParse == parse = NoParse

----------------------------------------------------------------------------
(* Accepted connections *)

\* The handlers share nothing but the matcher and the upstream descriptor,
\* which they only read: one accepted connection is followed.
Conns == {"c1"}

\* a connection the listener has not accepted yet
IdleConn ==
    [pc |-> "idle", client |-> "none", server |-> "none",
     origDst |-> NilIP, domain |-> <<>>, policy |-> "none",
     dial |-> "none", failed |-> "no",
     lookup |-> "none", err |-> "nil", dialed |-> "none",
     up |-> "none", down |-> "none", done |-> 0,
     cpeer |-> "open", speer |-> "open",
     cin |-> 0, sin |-> 0, fwdUp |-> 0, fwdDown |-> 0]

\* the handler variables while another subsystem is checked
ParkConn ==
    /\ upstream = "nil"
    /\ conns = [c \in Conns |-> IdleConn]

-----------------------------------------------------------------------------
(* The process, the listener, and the handlers the accept loop starts *)

\* the tasks handleConnection runs in: one per accepted connection
Handlers == {"h1", "h2"}

\* a task no connection has been handed to yet
FreeHandler ==
    [pc |-> "free", client |-> "none", server |-> "none",
     ip |-> NilIP, domain |-> <<>>, i |-> 1, policy |-> "none",
     failed |-> "no", born |-> 0, failedAt |-> 0]

\* a TransparentProxy as NewTransparentProxy returns it: no listener yet
NewTransparentProxy ==
    [start |-> "none", startErr |-> "nil", listener |-> "nil",
     sock |-> "none", stop |-> "none", saw |-> "none",
     accepted |-> 0, temporary |-> 0, last |-> "none", late |-> FALSE,
     reported |-> FALSE]

\* main before flag.Parse, in the mode its flags give it
NewProc(mode) ==
    [pc |-> "flags", mode |-> mode, failedAt |-> "none", setup |-> "none",
     notify |-> FALSE, sigChan |-> 0, exit |-> "running"]

\* the process, the listener and the handlers while another subsystem is
\* checked
ParkSrv ==
    /\ proc = NewProc("normal")
    /\ tp = NewTransparentProxy
    /\ hs = [h \in Handlers |-> FreeHandler]

----------------------------------------------------------------------------
(* The HTTP-CONNECT handshake: bytes on the upstream socket *)

\* the units of the upstream's byte stream: the status line, a header line,
\* the blank line that ends the header, and the tunnel's payload bytes
StatusLine(code) == [k |-> "status", v |-> code]
HeaderLine == [k |-> "header", v |-> 0]
BlankLine == [k |-> "blank", v |-> 0]
Data(i) == [k |-> "data", v |-> i]

\* http.StatusOK
StatusOK == 200
Statuses == {StatusOK, 204, 407}

\* what the upstream writes after it has read the CONNECT request
ResponseHeader(code) == <<StatusLine(code), HeaderLine, BlankLine>>
Payload == [i \in 1..MaxPayload |-> Data(i)]
UpstreamStream(code) == ResponseHeader(code) \o Payload

\* the error connectHTTP returns: which step failed and, for a refused
\* CONNECT, the status text of the response (resp.Status)
NoErr == [step |-> "nil", status |-> 0]
Err(step, code) == [step |-> step, status |-> code]

\* before connectHTTP is called
IdleHTTP(code) ==
    [pc |-> "dial", conn |-> "none", reqSent |-> FALSE,
     status |-> code, parsed |-> 0,
     upSent |-> 0, upClosed |-> FALSE,
     wire |-> <<>>, buf |-> <<>>, got |-> <<>>, eof |-> FALSE,
     ahead |-> 0, reads |-> 0, err |-> NoErr]

\* the handshake variables while another subsystem is checked
ParkHTTP == http = IdleHTTP(StatusOK)

----------------------------------------------------------------------------
(* The redirection manager: nftables and policy routing *)

fwMark == 1
routingTable == 100
rulePriority == 100
ProtoTCP == 6

\* DefaultPorts()
DefaultPorts == <<80, 443>>
\* the port of cfg.Listen
ListenPorts == {12345}
\* user ids a process runs with
Uids == {0, 1000}

\* the nftables table: absent, or present with or without its output chain
\* and the chain's rules in order
NoTable == [present |-> FALSE, chain |-> FALSE, rules |-> <<>>]

CleanKernel == [table |-> NoTable, rule |-> FALSE, route |-> FALSE]

\* the rule addOutputRule builds: tcp, skuid != uid, dport, mark, redirect
OutputRule(uid, dstPort, listenPort) ==
    [l4proto |-> ProtoTCP, skuidNeq |-> uid, dport |-> dstPort,
     mark |-> fwMark, redir |-> listenPort]

\* the rules Setup queues, one per target port, in the order of m.ports
OutputRules(uid, ports, listenPort) ==
    [i \in 1..Len(ports) |-> OutputRule(uid, ports[i], listenPort)]

\* the netlink.Route setupPolicyRouting adds (Type and Scope are the
\* defaults of a route with a gateway)
SetupRoute ==
    [LinkIndex |-> "lo", Gw |-> "127.0.0.1", Table |-> routingTable,
     Scope |-> "universe", Type |-> "unicast"]

\* the netlink.Route cleanupPolicyRouting asks the kernel to delete
CleanupRoute ==
    [LinkIndex |-> "lo", Gw |-> "none", Table |-> routingTable,
     Scope |-> "host", Type |-> "local"]

\* RTM_DELROUTE: the kernel deletes a route of the table only when the type,
\* the scope and the gateway the request gives are those of the route
RouteMatches(req, route) ==
    /\ req.Table = route.Table
    /\ req.LinkIndex = route.LinkIndex
    /\ req.Type = route.Type
    /\ req.Scope = route.Scope
    /\ (req.Gw # "none" => req.Gw = route.Gw)

\* messages queued on the nftables connection
Msg(o, r) == [op |-> o, rule |-> r]
NoNftRule == OutputRule(0, 0, 0)

\* one message of a batch applied to the table: [ok, table]
ApplyMsg(t, m) ==
    CASE m.op = "DelTable" ->
            IF t.present THEN [ok |-> TRUE, table |-> NoTable]
            ELSE [ok |-> FALSE, table |-> t]
      [] m.op = "AddTable" ->
            IF t.present THEN [ok |-> TRUE, table |-> t]
            ELSE [ok |-> TRUE, table |-> [present |-> TRUE, chain |-> FALSE, rules |-> <<>>]]
      [] m.op = "AddChain" ->
            IF t.present THEN [ok |-> TRUE, table |-> [t EXCEPT !.chain = TRUE]]
            ELSE [ok |-> FALSE, table |-> t]
      [] m.op = "AddRule" ->
            IF t.present /\ t.chain
            THEN [ok |-> TRUE, table |-> [t EXCEPT !.rules = Append(@, m.rule)]]
            ELSE [ok |-> FALSE, table |-> t]

\* a batch applied in order; the transaction fails when a message does
RECURSIVE ApplyBatch(_, _)
ApplyBatch(t, batch) ==
    IF batch = <<>>
    THEN [ok |-> TRUE, table |-> t]
    ELSE LET r == ApplyMsg(t, Head(batch)) IN
         IF r.ok THEN ApplyBatch(r.table, Tail(batch)) ELSE r

\* NewManager(port, DefaultPorts()): proxyUID is syscall.Getuid(), the real
\* user id of the process
NewManager(listenPort, targetPorts, cr) ==
    [listenPort |-> listenPort, ports |-> targetPorts, proxyUID |-> cr.ruid,
     conn |-> "nil", batch |-> <<>>,
     pc |-> "idle", op |-> "none", result |-> "none",
     fault |-> FALSE, setups |-> 0, ops |-> 0,
     hist |-> <<>>, snap |-> CleanKernel, before |-> CleanKernel,
     ownConn |-> FALSE]

\* what an earlier run of the same program with the same configuration left
LeftoverTable(cr) ==
    [present |-> TRUE, chain |-> TRUE,
     rules |-> OutputRules(cr.ruid, DefaultPorts, CHOOSE p \in ListenPorts : TRUE)]

NoPkt == [seen |-> FALSE, proto |-> 0, skuid |-> 0, dport |-> 0,
          verdict |-> "none", mark |-> 0, to |-> 0]

\* the manager variables while another subsystem is checked
ParkMgr ==
    /\ kernel = CleanKernel
    /\ creds = [ruid |-> 0, euid |-> 0]
    /\ mgr = NewManager(CHOOSE p \in ListenPorts : TRUE, DefaultPorts, creds)
    /\ pkt = NoPkt

InitMgr ==
    /\ rules = <<>>
    /\ query = NoQuery
    /\ result = NoResult
    /\ ParkConn
    /\ creds \in {cr \in [ruid : Uids, euid : Uids] : cr.euid = 0 \/ cr.ruid = cr.euid}
    /\ kernel \in [table : {NoTable, LeftoverTable(creds)},
                   rule : BOOLEAN, route : BOOLEAN]
    /\ \E lp \in ListenPorts : mgr = NewManager(lp, DefaultPorts, creds)
    /\ pkt = NoPkt
    /\ ParkHTTP
    /\ ParkParse
    /\ ParkSrv

\* the return of Setup or Cleanup with result r
Return(m, r) ==
    [m EXCEPT !.pc = "idle", !.result = r,
              !.hist = IF Len(@) < 2 THEN Append(@, <<m.op, r, m.fault>>)
                       ELSE <<@[2], <<m.op, r, m.fault>>>>]

\* Manager.Setup is called
SetupCall ==
    /\ mgr.pc = "idle"
    /\ mgr.ops < MaxOps
    /\ mgr' = [mgr EXCEPT !.pc = "new", !.op = "setup", !.result = "none",
                          !.fault = FALSE, !.ops = @ + 1, !.setups = @ + 1,
                          !.snap = kernel, !.before = kernel]
    /\ pkt' = NoPkt
    /\ UNCHANGED <<kernel, creds, matchVars, connVars, http, srvVars>>

\* Manager.Cleanup is called
CleanupCall ==
    /\ mgr.pc = "idle"
    /\ mgr.ops < MaxOps
    /\ mgr' = [mgr EXCEPT !.pc = "new", !.op = "cleanup", !.result = "none",
                          !.fault = FALSE, !.ops = @ + 1, !.ownConn = FALSE,
                          !.before = kernel]
    /\ pkt' = NoPkt
    /\ UNCHANGED <<kernel, creds, matchVars, connVars, http, srvVars>>

\* nftables.New(): always in Setup, in Cleanup only when m.conn is nil
NewConn ==
    /\ mgr.pc = "new"
    /\ IF mgr.op = "cleanup" /\ mgr.conn # "nil"
       THEN mgr' = [mgr EXCEPT !.pc = "existing"]
       ELSE \/ mgr' = [mgr EXCEPT !.pc = "existing", !.conn = "open",
                                  !.batch = <<>>,
                                  !.ownConn = (mgr.op = "cleanup")]
            \/ mgr' = Return([mgr EXCEPT !.fault = TRUE], "err")
    /\ UNCHANGED <<kernel, creds, pkt, matchVars, connVars, http, srvVars>>

\* cleanupExisting: list the tables and queue the deletion of ours; a
\* listing error is dropped
CleanupExisting ==
    /\ mgr.pc = "existing"
    /\ LET next == IF mgr.op = "setup" THEN "ruleAdd" ELSE "ruleDel" IN
       \/ mgr' = [mgr EXCEPT !.pc = next,
                             !.batch = IF kernel.table.present
                                       THEN Append(@, Msg("DelTable", NoNftRule))
                                       ELSE @]
       \/ mgr' = [mgr EXCEPT !.pc = next, !.fault = TRUE]
    /\ UNCHANGED <<kernel, creds, pkt, matchVars, connVars, http, srvVars>>

\* setupPolicyRouting: netlink.RuleAdd; "file exists" is ignored
RuleAdd ==
    /\ mgr.pc = "ruleAdd"
    /\ \/ /\ kernel.rule
          /\ mgr' = [mgr EXCEPT !.pc = "link"]
          /\ UNCHANGED kernel
       \/ /\ ~kernel.rule
          /\ mgr' = [mgr EXCEPT !.pc = "link"]
          /\ kernel' = [kernel EXCEPT !.rule = TRUE]
       \/ /\ ~kernel.rule
          /\ mgr' = Return([mgr EXCEPT !.fault = TRUE], "err")
          /\ UNCHANGED kernel
    /\ UNCHANGED <<creds, pkt, matchVars, connVars, http, srvVars>>

\* netlink.LinkByName("lo"), in setupPolicyRouting and cleanupPolicyRouting
LinkByName ==
    /\ mgr.pc \in {"link", "linkDel"}
    /\ \/ mgr' = [mgr EXCEPT !.pc = IF mgr.pc = "link" THEN "routeAdd" ELSE "routeDel"]
       \/ /\ mgr.pc = "link"
          /\ mgr' = Return([mgr EXCEPT !.fault = TRUE], "err")
       \/ /\ mgr.pc = "linkDel"
          /\ mgr' = IF mgr.op = "setup"
                    THEN Return([mgr EXCEPT !.fault = TRUE], "err")
                    ELSE [mgr EXCEPT !.pc = "flush", !.fault = TRUE]
    /\ UNCHANGED <<kernel, creds, pkt, matchVars, connVars, http, srvVars>>

\* setupPolicyRouting: netlink.RouteAdd; "file exists" is ignored
RouteAdd ==
    /\ mgr.pc = "routeAdd"
    /\ \/ /\ kernel.route
          /\ mgr' = [mgr EXCEPT !.pc = "build"]
          /\ UNCHANGED kernel
       \/ /\ ~kernel.route
          /\ mgr' = [mgr EXCEPT !.pc = "build"]
          /\ kernel' = [kernel EXCEPT !.route = TRUE]
       \/ /\ ~kernel.route
          /\ mgr' = Return([mgr EXCEPT !.fault = TRUE], "err")
          /\ UNCHANGED kernel
    /\ UNCHANGED <<creds, pkt, matchVars, connVars, http, srvVars>>

\* Setup queues AddTable, AddChain and one AddRule per target port
\* (addOutputRule never returns an error)
BuildTable ==
    /\ mgr.pc = "build"
    /\ LET rs == OutputRules(mgr.proxyUID, mgr.ports, mgr.listenPort) IN
       mgr' = [mgr EXCEPT
                 !.pc = "flush",
                 !.batch = @ \o <<Msg("AddTable", NoNftRule), Msg("AddChain", NoNftRule)>>
                             \o [i \in 1..Len(rs) |-> Msg("AddRule", rs[i])]]
    /\ UNCHANGED <<kernel, creds, pkt, matchVars, connVars, http, srvVars>>

\* m.conn.Flush(): the batch is one transaction; an empty batch sends nothing
Flush ==
    /\ mgr.pc = "flush"
    /\ LET applied == ApplyBatch(kernel.table, mgr.batch)
           m == [mgr EXCEPT !.batch = <<>>]
           failed(f) == IF mgr.op = "setup"
                        THEN [m EXCEPT !.pc = "ruleDel", !.fault = f]
                        ELSE Return([m EXCEPT !.fault = f], "err")
       IN
       \/ /\ applied.ok
          /\ kernel' = [kernel EXCEPT !.table = applied.table]
          /\ mgr' = Return(m, "ok")
       \/ /\ ~applied.ok
          /\ UNCHANGED kernel
          /\ mgr' = failed(mgr.fault)
       \/ /\ mgr.batch # <<>>
          /\ UNCHANGED kernel
          /\ mgr' = failed(TRUE)
    /\ UNCHANGED <<creds, pkt, matchVars, connVars, http, srvVars>>

\* cleanupPolicyRouting: netlink.RuleDel with the mark, table and priority
\* of the rule that was added; its error is dropped
RuleDel ==
    /\ mgr.pc = "ruleDel"
    /\ kernel' = [kernel EXCEPT !.rule = FALSE]
    /\ mgr' = [mgr EXCEPT !.pc = "linkDel"]
    /\ UNCHANGED <<creds, pkt, matchVars, connVars, http, srvVars>>

\* cleanupPolicyRouting: netlink.RouteDel; its error is dropped
RouteDel ==
    /\ mgr.pc = "routeDel"
    /\ kernel' = [kernel EXCEPT
                    !.route = IF RouteMatches(CleanupRoute, SetupRoute) THEN FALSE ELSE @]
    /\ mgr' = IF mgr.op = "setup" THEN Return(mgr, "err")
              ELSE [mgr EXCEPT !.pc = "flush"]
    /\ UNCHANGED <<creds, pkt, matchVars, connVars, http, srvVars>>

\* the verdict of the output chain on a packet: the first rule whose
\* comparisons all hold marks and redirects it, else it passes
RECURSIVE Verdict(_, _, _)
Verdict(rs, i, p) ==
    IF i > Len(rs)
    THEN [verdict |-> "accept", mark |-> 0, to |-> 0]
    ELSE IF /\ p.proto = rs[i].l4proto
            /\ p.skuid # rs[i].skuidNeq
            /\ p.dport = rs[i].dport
         THEN [verdict |-> "redirect", mark |-> rs[i].mark, to |-> rs[i].redir]
         ELSE Verdict(rs, i + 1, p)

PktPorts == {22, 80, 443}

\* IP protocol numbers of the packets tried: TCP and UDP
PktProtos == {ProtoTCP, 17}

\* a locally generated packet of a socket owned by skuid passes the output
\* hook while the table is installed
Packet ==
    /\ mgr.pc = "idle"
    /\ kernel.table.present /\ kernel.table.chain
    /\ \E proto \in PktProtos, uid \in Uids, dport \in PktPorts :
          LET p == [proto |-> proto, skuid |-> uid, dport |-> dport]
              v == Verdict(kernel.table.rules, 1, p)
          IN pkt' = [seen |-> TRUE, proto |-> proto, skuid |-> uid, dport |-> dport,
                     verdict |-> v.verdict, mark |-> v.mark, to |-> v.to]
    /\ UNCHANGED <<kernel, mgr, creds, matchVars, connVars, http, srvVars>>

NextMgr ==
    \/ SetupCall \/ CleanupCall \/ NewConn \/ CleanupExisting
    \/ RuleAdd \/ LinkByName \/ RouteAdd \/ BuildTable \/ Flush
    \/ RuleDel \/ RouteDel \/ Packet

SpecMgr == InitMgr /\ [][NextMgr]_vars

----------------------------------------------------------------------------
(* The connection handler and the relay *)

\* the rule lists the handler specification is run with (as ParseRules
\* returns them: a policy is one of the three tokens)
ConnRuleLists ==
    { <<>>,
      <<Rule(RuleTypeDomainKeyword, <<"a">>, PolicyReject, NilNet),
        Rule(RuleTypeIPCIDR, <<>>, PolicyProxy, MkNet("v4", 0, 0)),
        Rule(RuleTypeMatch, <<>>, PolicyDirect, NilNet)>>,
      <<Rule(RuleTypeIPCIDR6, <<>>, PolicyReject, MkNet("v6", 1, AddrBits)),
        Rule(RuleTypeMatch, <<>>, PolicyProxy, NilNet)>> }

\* the original destinations getOriginalDst recovers
OrigDsts == {MkIP("v4", 0), MkIP("v6", 1)}
\* what net.LookupAddr answers: an error, no name, or a list of names
LookupAnswers == {"error", "empty", "name"}
LookupName == <<"a", ".">>

\* handleConnection lines 95-103: the first name without its trailing dot,
\* or the empty domain when the lookup failed or returned nothing
ResolvedDomain(answer) ==
    IF answer = "name"
    THEN IF Len(LookupName) > 0 /\ LookupName[Len(LookupName)] = "."
         THEN SubSeq(LookupName, 1, Len(LookupName) - 1)
         ELSE LookupName
    ELSE <<>>

\* a handler whose connect call leaves an earlier error in err
ErrKeptAfterConnect(before, dialErr) ==
    IF before # "nil" THEN before ELSE dialErr

\* serverConn, err = DirectConnect(...) / tp.upstream.Connect(...): err is
\* assigned the error of the connect call, whatever it held before
ErrAfterConnect(before, dialErr) == dialErr

\* a handler that refuses PROXY when no upstream is configured
ConnectKindNeedsUpstream(policy, up) ==
    CASE policy = PolicyReject -> "reject"
      [] policy = PolicyDirect -> "direct"
      [] policy = PolicyProxy -> IF up = "nil" THEN "reject" ELSE "upstream"
      [] OTHER -> "none"

\* a handler that treats REJECT like DIRECT
ConnectKindNoReject(policy, up) ==
    CASE policy = PolicyReject -> "direct"
      [] policy = PolicyDirect -> "direct"
      [] policy = PolicyProxy -> IF up = "nil" THEN "direct" ELSE "upstream"
      [] OTHER -> "none"

\* the switch of handleConnection on result.Policy: which connect call, if
\* any, the handler makes
ConnectKind(policy, up) ==
    CASE policy = PolicyReject -> "reject"
      [] policy = PolicyDirect -> "direct"
      [] policy = PolicyProxy -> IF up = "nil" THEN "direct" ELSE "upstream"
      [] OTHER -> "none"

Set(c, r) == conns' = [conns EXCEPT ![c] = r]

InitConn ==
    /\ rules \in ConnRuleLists
    /\ query = NoQuery
    /\ result = NoResult
    /\ upstream \in {"nil", "http", "socks5"}
    /\ conns = [c \in Conns |-> IdleConn]
    /\ ParkMgr
    /\ ParkHTTP
    /\ ParkParse
    /\ ParkSrv

\* Start's loop: listener.Accept() returns a connection and the handler is
\* started on it with the deferred clientConn.Close() pending
Accept(c) ==
    /\ conns[c].pc = "idle"
    /\ Set(c, [conns[c] EXCEPT !.pc = "recover", !.client = "open"])
    /\ UNCHANGED <<matchVars, upstream, mgrVars, srvVars, http>>

\* a handler that goes on to the lookup after a failed recovery
RecoverContinue(c) ==
    /\ conns[c].pc = "recover"
    /\ \/ \E ip \in OrigDsts :
            Set(c, [conns[c] EXCEPT !.pc = "lookup", !.origDst = ip])
       \/ Set(c, [conns[c] EXCEPT !.pc = "lookup", !.failed = "recover",
                                   !.err = "recover"])
    /\ UNCHANGED <<matchVars, upstream, mgrVars, srvVars, http>>

\* getOriginalDst: the original destination, or an error that ends the handler
Recover(c) ==
    /\ conns[c].pc = "recover"
    /\ \/ \E ip \in OrigDsts :
            Set(c, [conns[c] EXCEPT !.pc = "lookup", !.origDst = ip])
       \/ Set(c, [conns[c] EXCEPT !.pc = "closeClient", !.failed = "recover",
                                   !.err = "recover"])
    /\ UNCHANGED <<matchVars, upstream, mgrVars, srvVars, http>>

\* names, err := net.LookupAddr(ip): best effort; err is the variable the
\* connect calls assign later
Lookup(c) ==
    /\ conns[c].pc = "lookup"
    /\ \E answer \in LookupAnswers :
            Set(c, [conns[c] EXCEPT
                      !.pc = "match",
                      !.lookup = answer,
                      !.err = IF answer = "error" THEN "lookup" ELSE "nil",
                      !.domain = ResolvedDomain(answer)])
    /\ UNCHANGED <<matchVars, upstream, mgrVars, srvVars, http>>

\* tp.matcher.Match(domain, ip)
HandlerMatch(c) ==
    /\ conns[c].pc = "match"
    /\ Set(c, [conns[c] EXCEPT
                 !.pc = "connect",
                 !.policy = Match(rules, conns[c].domain, conns[c].origDst).Policy])
    /\ UNCHANGED <<matchVars, upstream, mgrVars, srvVars, http>>

\* the switch on the policy: return on REJECT, else DirectConnect or
\* Upstream.Connect, and the return on a connect error; a policy that is
\* none of the three makes no call: err is still the lookup's, serverConn is
\* nil, and `defer serverConn.Close()` on the nil interface panics
Connect(c) ==
    /\ conns[c].pc = "connect"
    /\ LET kind == ConnectKind(conns[c].policy, upstream) IN
       \/ /\ kind = "reject"
          /\ Set(c, [conns[c] EXCEPT !.pc = "closeClient"])
       \/ /\ kind \in {"direct", "upstream"}
          /\ \E dialErr \in {"nil", "connect"} :
                LET e == ErrAfterConnect(conns[c].err, dialErr) IN
                Set(c, [conns[c] EXCEPT
                          !.dial = kind,
                          !.dialed = IF dialErr = "nil" THEN "ok" ELSE "err",
                          !.server = IF dialErr = "nil" THEN "open" ELSE @,
                          !.err = e,
                          !.pc = IF e = "nil" THEN "relay" ELSE "closeClient",
                          !.failed = IF e = "nil" THEN @ ELSE "connect"])
       \/ /\ kind = "none"
          /\ Set(c, [conns[c] EXCEPT
                       !.pc = IF conns[c].err = "nil" THEN "panic"
                                                     ELSE "closeClient",
                       !.failed = "connect"])
    /\ UNCHANGED <<matchVars, upstream, mgrVars, srvVars, http>>

\* Relay(serverConn, clientConn): the done channel and the two copy tasks
RelayStart(c) ==
    /\ conns[c].pc = "relay"
    /\ Set(c, [conns[c] EXCEPT !.pc = "wait", !.up = "copy", !.down = "copy"])
    /\ UNCHANGED <<matchVars, upstream, mgrVars, srvVars, http>>

\* Relay waits for two completions before it returns
RelayNeedsBoth(n) == n >= 2

\* <-done: Relay returns once one completion is in the channel
RelayMayReturn(n) == n >= 1

\* Relay's receive from done, and its return to the handler
RelayReturn(c) ==
    /\ conns[c].pc = "wait"
    /\ RelayMayReturn(conns[c].done)
    /\ Set(c, [conns[c] EXCEPT !.pc = "closeServer", !.done = @ - 1])
    /\ UNCHANGED <<matchVars, upstream, mgrVars, srvVars, http>>

\* the deferred serverConn.Close()
CloseServer(c) ==
    /\ conns[c].pc = "closeServer"
    /\ Set(c, [conns[c] EXCEPT !.pc = "closeClient", !.server = "closed"])
    /\ UNCHANGED <<matchVars, upstream, mgrVars, srvVars, http>>

\* the deferred clientConn.Close(): the handler returns
CloseClient(c) ==
    /\ conns[c].pc = "closeClient"
    /\ Set(c, [conns[c] EXCEPT !.pc = "done", !.client = "closed"])
    /\ UNCHANGED <<matchVars, upstream, mgrVars, srvVars, http>>

\* io.Copy(dst, src) of Relay(dst = serverConn, src = clientConn): one read
\* from the client and its write to the server, or the end of the copy
CopyUp(c) ==
    /\ conns[c].up = "copy"
    /\ \/ /\ conns[c].client = "closed" \/ conns[c].cpeer = "reset"
          /\ Set(c, [conns[c] EXCEPT !.up = "signal"])
       \/ /\ conns[c].client = "open" /\ conns[c].cpeer # "reset"
          /\ conns[c].cin > 0
          /\ IF conns[c].server = "open" /\ conns[c].speer # "reset"
             THEN Set(c, [conns[c] EXCEPT !.cin = @ - 1, !.fwdUp = @ + 1])
             ELSE Set(c, [conns[c] EXCEPT !.up = "signal"])
       \/ /\ conns[c].client = "open" /\ conns[c].cpeer = "eof"
          /\ conns[c].cin = 0
          /\ Set(c, [conns[c] EXCEPT !.up = "signal"])
    /\ UNCHANGED <<matchVars, upstream, mgrVars, srvVars, http>>

\* io.Copy(src, dst): one read from the server and its write to the client,
\* or the end of the copy
CopyDown(c) ==
    /\ conns[c].down = "copy"
    /\ \/ /\ conns[c].server = "closed" \/ conns[c].speer = "reset"
          /\ Set(c, [conns[c] EXCEPT !.down = "signal"])
       \/ /\ conns[c].server = "open" /\ conns[c].speer # "reset"
          /\ conns[c].sin > 0
          /\ IF conns[c].client = "open" /\ conns[c].cpeer # "reset"
             THEN Set(c, [conns[c] EXCEPT !.sin = @ - 1, !.fwdDown = @ + 1])
             ELSE Set(c, [conns[c] EXCEPT !.down = "signal"])
       \/ /\ conns[c].server = "open" /\ conns[c].speer = "eof"
          /\ conns[c].sin = 0
          /\ Set(c, [conns[c] EXCEPT !.down = "signal"])
    /\ UNCHANGED <<matchVars, upstream, mgrVars, srvVars, http>>

\* make(chan struct{}, 2)
DoneCap == 2

\* a send on an unbuffered done channel: it completes only while Relay is
\* at its receive
DoneAcceptsUnbuffered(n, receiving) == receiving /\ n = 0

\* done <- struct{}{} completes when the channel holds fewer than DoneCap
DoneAccepts(n, receiving) == n < DoneCap

\* done <- struct{}{} of the first copy task (the channel holds two)
SignalUp(c) ==
    /\ conns[c].up = "signal"
    /\ DoneAccepts(conns[c].done, conns[c].pc = "wait")
    /\ Set(c, [conns[c] EXCEPT !.up = "exit", !.done = @ + 1])
    /\ UNCHANGED <<matchVars, upstream, mgrVars, srvVars, http>>

\* done <- struct{}{} of the second copy task
SignalDown(c) ==
    /\ conns[c].down = "signal"
    /\ DoneAccepts(conns[c].done, conns[c].pc = "wait")
    /\ Set(c, [conns[c] EXCEPT !.down = "exit", !.done = @ + 1])
    /\ UNCHANGED <<matchVars, upstream, mgrVars, srvVars, http>>

\* the client peer: it sends a byte, closes its side, or resets
ClientPeer(c) ==
    /\ conns[c].client = "open"
    /\ conns[c].cpeer = "open"
    /\ \/ /\ conns[c].cin + conns[c].fwdUp < MaxBytes
          /\ Set(c, [conns[c] EXCEPT !.cin = @ + 1])
       \/ Set(c, [conns[c] EXCEPT !.cpeer = "eof"])
       \/ Set(c, [conns[c] EXCEPT !.cpeer = "reset"])
    /\ UNCHANGED <<matchVars, upstream, mgrVars, srvVars, http>>

\* the server peer (the target or the upstream tunnel): the same
ServerPeer(c) ==
    /\ conns[c].server = "open"
    /\ conns[c].speer = "open"
    /\ \/ /\ conns[c].sin + conns[c].fwdDown < MaxBytes
          /\ Set(c, [conns[c] EXCEPT !.sin = @ + 1])
       \/ Set(c, [conns[c] EXCEPT !.speer = "eof"])
       \/ Set(c, [conns[c] EXCEPT !.speer = "reset"])
    /\ UNCHANGED <<matchVars, upstream, mgrVars, srvVars, http>>

\* the steps of the handler task of connection c
HandlerStep(c) ==
    \/ Recover(c) \/ Lookup(c) \/ HandlerMatch(c) \/ Connect(c)
    \/ RelayStart(c) \/ RelayReturn(c) \/ CloseServer(c) \/ CloseClient(c)

\* the steps of the two copy tasks of connection c
CopyTaskStep(c) == CopyUp(c) \/ SignalUp(c) \/ CopyDown(c) \/ SignalDown(c)

NextConn ==
    \E c \in Conns :
        \/ Accept(c)
        \/ HandlerStep(c)
        \/ CopyTaskStep(c)
        \/ ClientPeer(c)
        \/ ServerPeer(c)

SpecConn == InitConn /\ [][NextConn]_vars

\* the Go scheduler runs every runnable task: the handler and the copy tasks
\* take their enabled steps; the peers are under no obligation
FairSpecConn ==
    /\ SpecConn
    /\ \A c \in Conns :
          /\ WF_vars(HandlerStep(c))
          /\ WF_vars(CopyUp(c) \/ SignalUp(c))
          /\ WF_vars(CopyDown(c) \/ SignalDown(c))

----------------------------------------------------------------------------
(* Upstream.connectHTTP and bufferedConn *)

Min(a, b) == IF a < b THEN a ELSE b
Take(q, n) == SubSeq(q, 1, Min(n, Len(q)))
Drop(q, n) == SubSeq(q, Min(n, Len(q)) + 1, Len(q))

InitHTTP ==
    /\ rules = <<>>
    /\ query = NoQuery
    /\ result = NoResult
    /\ ParkConn
    /\ ParkMgr
    /\ \E code \in Statuses : http = IdleHTTP(code)
    /\ ParkParse
    /\ ParkSrv

\* net.Dial("tcp", proxyAddr)
DialProxy ==
    /\ http.pc = "dial"
    /\ \/ http' = [http EXCEPT !.pc = "write", !.conn = "open"]
       \/ http' = [http EXCEPT !.pc = "failed", !.err = Err("dial", 0)]
    /\ UNCHANGED <<matchVars, connVars, mgrVars, srvVars>>

\* req.Write(conn); the connection is closed when the write fails
WriteRequest ==
    /\ http.pc = "write"
    /\ \/ http' = [http EXCEPT !.pc = "read", !.reqSent = TRUE]
       \/ http' = [http EXCEPT !.pc = "failed", !.conn = "closed",
                                !.err = Err("write", 0)]
    /\ UNCHANGED <<matchVars, connVars, mgrVars, srvVars>>

\* the upstream proxy, once it has the request: it writes the next byte of
\* its response header and then of the tunnel's payload
UpstreamSend ==
    /\ http.reqSent /\ ~http.upClosed
    /\ http.conn = "open"
    /\ http.upSent < Len(UpstreamStream(http.status))
    /\ http' = [http EXCEPT !.upSent = @ + 1,
                            !.wire = Append(@, UpstreamStream(http.status)[http.upSent + 1])]
    /\ UNCHANGED <<matchVars, connVars, mgrVars, srvVars>>

\* the upstream closes its side
UpstreamClose ==
    /\ http.reqSent /\ ~http.upClosed
    /\ http.conn = "open"
    /\ http' = [http EXCEPT !.upClosed = TRUE]
    /\ UNCHANGED <<matchVars, connVars, mgrVars, srvVars>>

\* http.ReadResponse(br, req): the reader fills its buffer with what the
\* socket holds, as much as fits, and the parser takes the header from the
\* buffer line by line; it stops after the blank line and reads no body
ReadResponse ==
    /\ http.pc = "read"
    /\ \/ /\ http.buf = <<>> /\ http.wire # <<>>
          /\ http' = [http EXCEPT !.buf = Take(http.wire, BufSize),
                                  !.wire = Drop(http.wire, BufSize)]
       \/ /\ http.buf = <<>> /\ http.wire = <<>> /\ http.upClosed
          /\ http' = [http EXCEPT !.pc = "failed", !.conn = "closed",
                                  !.err = Err("read", 0)]
       \/ /\ http.buf # <<>>
          /\ http' = [http EXCEPT
                        !.buf = Tail(@),
                        !.parsed = @ + 1,
                        !.pc = IF Head(http.buf).k = "blank" THEN "status" ELSE @]
    /\ UNCHANGED <<matchVars, connVars, mgrVars, srvVars>>

\* a status check that returns its error and leaves the connection open
CheckStatusNoClose ==
    /\ http.pc = "status"
    /\ IF http.status # StatusOK
       THEN http' = [http EXCEPT !.pc = "failed",
                                 !.err = Err("status", http.status)]
       ELSE http' = [http EXCEPT !.pc = "tunnel", !.ahead = Len(http.buf)]
    /\ UNCHANGED <<matchVars, connVars, mgrVars, srvVars>>

\* resp.StatusCode != http.StatusOK closes the connection; otherwise the
\* tunnel is &bufferedConn{Conn: conn, reader: br}
CheckStatus ==
    /\ http.pc = "status"
    /\ IF http.status # StatusOK
       THEN http' = [http EXCEPT !.pc = "failed", !.conn = "closed",
                                 !.err = Err("status", http.status)]
       ELSE http' = [http EXCEPT !.pc = "tunnel", !.ahead = Len(http.buf)]
    /\ UNCHANGED <<matchVars, connVars, mgrVars, srvVars>>

\* a tunnel that is the bare connection: Read takes from the socket and what
\* the reader had buffered stays there
ConnRead(buf, wire, n) ==
    [out |-> Take(wire, n), buf |-> buf, wire |-> Drop(wire, n)]

\* bufferedConn.Read(b) with len(b) = n is c.reader.Read(b): from the
\* buffer when it holds bytes; else straight from the socket when b is as
\* large as the buffer, and else after one fill of the buffer
StreamRead(buf, wire, n) ==
    IF buf # <<>>
    THEN [out |-> Take(buf, n), buf |-> Drop(buf, n), wire |-> wire]
    ELSE IF n >= BufSize
         THEN [out |-> Take(wire, n), buf |-> <<>>, wire |-> Drop(wire, n)]
         ELSE LET filled == Take(wire, BufSize) IN
              [out |-> Take(filled, n), buf |-> Drop(filled, n),
               wire |-> Drop(wire, BufSize)]

\* the caller of Connect reads from the stream it was given
CallerRead ==
    /\ http.pc = "tunnel"
    /\ ~http.eof
    /\ \E n \in 1..MaxRead :
          \/ /\ http.buf # <<>> \/ http.wire # <<>>
             /\ LET r == StreamRead(http.buf, http.wire, n) IN
                http' = [http EXCEPT !.got = @ \o r.out, !.buf = r.buf,
                                     !.wire = r.wire, !.reads = Min(@ + 1, 2)]
          \/ /\ http.buf = <<>> /\ http.wire = <<>> /\ http.upClosed
             /\ http' = [http EXCEPT !.eof = TRUE]
    /\ UNCHANGED <<matchVars, connVars, mgrVars, srvVars>>

NextHTTP ==
    \/ DialProxy \/ WriteRequest \/ UpstreamSend \/ UpstreamClose
    \/ ReadResponse \/ CheckStatus \/ CallerRead

SpecHTTP == InitHTTP /\ [][NextHTTP]_vars

----------------------------------------------------------------------------
(* SpecSock: the handler with an HTTP upstream; Upstream.Connect is the      *)
(* connectHTTP handshake, and the server socket of a proxied connection is  *)
(* the connection to the upstream proxy                                     *)

InitSock ==
    /\ rules \in ConnRuleLists
    /\ query = NoQuery
    /\ result = NoResult
    /\ upstream = "http"
    /\ conns = [c \in Conns |-> IdleConn]
    /\ ParkMgr
    /\ ParkParse
    /\ ParkSrv
    /\ \E code \in Statuses : http = IdleHTTP(code)

\* some handler is inside tp.upstream.Connect
Handshaking == \E c \in Conns : conns[c].pc = "handshake"

\* the REJECT and DIRECT cases of the switch, and PROXY without an upstream
ConnectPlain(c) ==
    /\ ConnectKind(conns[c].policy, upstream) # "upstream"
    /\ Connect(c)

\* the PROXY case with an upstream: tp.upstream.Connect(targetAddr) is entered
TunnelBegin(c) ==
    /\ conns[c].pc = "connect"
    /\ ConnectKind(conns[c].policy, upstream) = "upstream"
    /\ Set(c, [conns[c] EXCEPT !.pc = "handshake", !.dial = "upstream"])
    /\ UNCHANGED <<matchVars, upstream, mgrVars, srvVars, http>>

\* the steps of connectHTTP and of the upstream proxy during the handshake
HandshakeStep ==
    /\ Handshaking
    /\ \/ DialProxy \/ WriteRequest \/ UpstreamSend \/ UpstreamClose
       \/ ReadResponse \/ CheckStatus

\* tp.upstream.Connect returns: the tunnel becomes serverConn, or the error
\* ends the handler
TunnelEnd(c) ==
    /\ conns[c].pc = "handshake"
    /\ http.pc \in {"tunnel", "failed"}
    /\ LET dialErr == IF http.pc = "tunnel" THEN "nil" ELSE "connect"
           e == ErrAfterConnect(conns[c].err, dialErr)
       IN Set(c, [conns[c] EXCEPT
                    !.dialed = IF dialErr = "nil" THEN "ok" ELSE "err",
                    !.server = IF dialErr = "nil" THEN "open" ELSE @,
                    !.err = e,
                    !.pc = IF e = "nil" THEN "relay" ELSE "closeClient",
                    !.failed = IF e = "nil" THEN @ ELSE "connect"])
    /\ UNCHANGED <<matchVars, upstream, mgrVars, srvVars, http>>

\* the deferred serverConn.Close(); for a tunnel, bufferedConn's Close is
\* the Close of the connection to the upstream proxy
SockCloseServer(c) ==
    /\ conns[c].pc = "closeServer"
    /\ Set(c, [conns[c] EXCEPT !.pc = "closeClient", !.server = "closed"])
    /\ http' = IF conns[c].dial = "upstream"
               THEN [http EXCEPT !.conn = "closed"]
               ELSE http
    /\ UNCHANGED <<matchVars, upstream, mgrVars, srvVars>>

NextSock ==
    \/ \E c \in Conns :
          \/ Accept(c) \/ Recover(c) \/ Lookup(c) \/ HandlerMatch(c)
          \/ ConnectPlain(c) \/ TunnelBegin(c) \/ TunnelEnd(c)
          \/ RelayStart(c) \/ RelayReturn(c)
          \/ SockCloseServer(c) \/ CloseClient(c)
          \/ CopyTaskStep(c)
          \/ ClientPeer(c)
          \/ ServerPeer(c)
    \/ HandshakeStep

SpecSock == InitSock /\ [][NextSock]_vars

-----------------------------------------------------------------------------
(* SpecServe: Start's accept loop, Stop, and the handlers it starts *)

MaxTemporary == 1

\* the process has not exited: its tasks still run
Running == proc.exit = "running"

\* main after `go func() { tp.Start() }()`, waiting on sigChan
Serving ==
    [NewProc("normal") EXCEPT !.pc = "wait", !.setup = "ok", !.notify = TRUE]

InitServe ==
    /\ rules \in ConnRuleLists
    /\ query = NoQuery
    /\ result = NoResult
    /\ upstream \in {"nil", "http", "socks5"}
    /\ conns = [c \in Conns |-> IdleConn]
    /\ ParkMgr
    /\ ParkHTTP
    /\ ParkParse
    /\ proc = Serving
    /\ tp = [NewTransparentProxy EXCEPT !.start = "listen"]
    /\ hs = [h \in Handlers |-> FreeHandler]

\* listener, err := net.Listen("tcp", tp.listenAddr), and the return on its
\* error
StartListen ==
    /\ Running
    /\ tp.start = "listen"
    /\ \/ tp' = [tp EXCEPT !.start = "publish", !.sock = "open"]
       \/ tp' = [tp EXCEPT !.start = "returned", !.startErr = "listen"]
    /\ UNCHANGED <<matchVars, connVars, mgrVars, http, proc, hs>>

\* tp.listener = listener
StartPublish ==
    /\ Running
    /\ tp.start = "publish"
    /\ tp' = [tp EXCEPT !.start = "accept", !.listener = "set"]
    /\ UNCHANGED <<matchVars, connVars, mgrVars, http, proc, hs>>

\* listener.Accept() returns a connection: go tp.handleConnection(conn)
AcceptConn(h) ==
    /\ Running
    /\ tp.start = "accept"
    /\ tp.sock = "open"
    /\ hs[h].pc = "free"
    /\ tp' = [tp EXCEPT !.accepted = @ + 1, !.last = "conn",
                        !.late = @ \/ tp.stop = "returned"]
    /\ hs' = [hs EXCEPT ![h] = [@ EXCEPT !.pc = "recover", !.client = "open",
                                         !.born = tp.accepted + 1]]
    /\ UNCHANGED <<matchVars, connVars, mgrVars, http, proc>>

\* an accept loop that gives up on every accept error
AfterAcceptErrorFatal(temporary) == "returned"

\* lines 55-60: continue on a temporary net.Error, else return err
AfterAcceptError(temporary) == IF temporary THEN "accept" ELSE "returned"

\* listener.Accept() returns an error: a temporary one, another one, or the
\* error of a listener that was closed
AcceptError ==
    /\ Running
    /\ tp.start = "accept"
    /\ \E kind \in IF tp.sock = "open" THEN {"temporary", "fatal"}
                                       ELSE {"closed"} :
          LET next == AfterAcceptError(kind = "temporary") IN
          /\ kind = "temporary" => tp.temporary < MaxTemporary
          /\ tp' = [tp EXCEPT
                      !.start = next,
                      !.startErr = IF next = "returned" THEN "accept" ELSE @,
                      !.temporary = IF kind = "temporary" THEN @ + 1 ELSE @,
                      !.last = kind]
    /\ UNCHANGED <<matchVars, connVars, mgrVars, http, proc, hs>>

\* what Stop's unsynchronised read of tp.listener can return while Start
\* runs: the listener Start stored, or the nil the field was created with
ListenerSeen(t) ==
    IF t.listener = "nil" THEN {"nil"}
    ELSE IF t.start = "returned" THEN {"set"}
    ELSE {"nil", "set"}

\* Stop: close the listener if the field holds one, else return nil
Stop ==
    \E seen \in ListenerSeen(tp) :
        tp' = [tp EXCEPT !.stop = "returned", !.saw = seen,
                         !.sock = IF seen = "set" THEN "closed" ELSE @]

\* a Stop call at any moment after Start was launched
StopCall ==
    /\ Running
    /\ tp.start # "none"
    /\ tp.stop = "none"
    /\ Stop
    /\ UNCHANGED <<matchVars, connVars, mgrVars, http, proc, hs>>

\* a failure that ends every connection in progress
FailAll(all, h, why, at) ==
    [x \in Handlers |->
        IF all[x].pc = "free" THEN all[x]
        ELSE [all[x] EXCEPT !.pc = "closeClient", !.failed = why,
                            !.failedAt = at]]

\* the return of handleConnection on an error: only the deferred Close of
\* its own client connection is left to run
Fail(all, h, why, at) ==
    [all EXCEPT ![h] = [@ EXCEPT !.pc = "closeClient", !.failed = why,
                                 !.failedAt = at]]

\* origDst, err := getOriginalDst(clientConn)
HRecover(h) ==
    /\ Running
    /\ hs[h].pc = "recover"
    /\ \/ \E ip \in OrigDsts :
            hs' = [hs EXCEPT ![h] = [@ EXCEPT !.pc = "lookup", !.ip = ip]]
       \/ hs' = Fail(hs, h, "recover", tp.accepted)
    /\ UNCHANGED <<matchVars, connVars, mgrVars, http, proc, tp>>

\* the reverse lookup, then the entry into Match: its loop starts at the
\* first rule
HLookup(h) ==
    /\ Running
    /\ hs[h].pc = "lookup"
    /\ \E answer \in LookupAnswers :
            hs' = [hs EXCEPT ![h] = [@ EXCEPT !.pc = "match", !.i = 1,
                                     !.domain = ResolvedDomain(answer)]]
    /\ UNCHANGED <<matchVars, connVars, mgrVars, http, proc, tp>>

\* a matcher that keeps the position of its loop in a field all calls share
CursorShared(all, h) == all[CHOOSE x \in Handlers : TRUE].i

\* the loop variable of Match: a local of the call
Cursor(all, h) == all[h].i

\* one iteration of the loop of Match, or its return of the default
HMatchStep(h) ==
    /\ Running
    /\ hs[h].pc = "match"
    /\ LET i == Cursor(hs, h) IN
       IF i > Len(rules)
       THEN hs' = [hs EXCEPT ![h] = [@ EXCEPT !.pc = "connect",
                                              !.policy = PolicyDirect]]
       ELSE IF matchRule(rules[i], ToLower(hs[h].domain), hs[h].ip)
            THEN hs' = [hs EXCEPT ![h] = [@ EXCEPT !.pc = "connect",
                                          !.policy = rules[i].Policy]]
            ELSE hs' = [hs EXCEPT ![h] = [@ EXCEPT !.i = i + 1]]
    /\ UNCHANGED <<matchVars, connVars, mgrVars, http, proc, tp>>

\* the switch on the policy, the connect call and the return on its error
HConnect(h) ==
    /\ Running
    /\ hs[h].pc = "connect"
    /\ LET kind == ConnectKind(hs[h].policy, upstream) IN
       \/ /\ kind = "reject"
          /\ hs' = [hs EXCEPT ![h] = [@ EXCEPT !.pc = "closeClient"]]
       \/ /\ kind \in {"direct", "upstream"}
          /\ \/ hs' = [hs EXCEPT ![h] = [@ EXCEPT !.pc = "relay",
                                                  !.server = "open"]]
             \/ hs' = Fail(hs, h, kind, tp.accepted)
    /\ UNCHANGED <<matchVars, connVars, mgrVars, http, proc, tp>>

\* Relay(serverConn, clientConn) returns
HRelay(h) ==
    /\ Running
    /\ hs[h].pc = "relay"
    /\ hs' = [hs EXCEPT ![h] = [@ EXCEPT !.pc = "closeServer"]]
    /\ UNCHANGED <<matchVars, connVars, mgrVars, http, proc, tp>>

\* defer serverConn.Close()
HCloseServer(h) ==
    /\ Running
    /\ hs[h].pc = "closeServer"
    /\ hs' = [hs EXCEPT ![h] = [@ EXCEPT !.pc = "closeClient",
                                         !.server = "closed"]]
    /\ UNCHANGED <<matchVars, connVars, mgrVars, http, proc, tp>>

\* defer clientConn.Close()
HCloseClient(h) ==
    /\ Running
    /\ hs[h].pc = "closeClient"
    /\ hs' = [hs EXCEPT ![h] = [@ EXCEPT !.pc = "done", !.client = "closed"]]
    /\ UNCHANGED <<matchVars, connVars, mgrVars, http, proc, tp>>

HandleConnection(h) ==
    \/ HRecover(h) \/ HLookup(h) \/ HMatchStep(h) \/ HConnect(h)
    \/ HRelay(h) \/ HCloseServer(h) \/ HCloseClient(h)

NextServe ==
    \/ StartListen
    \/ StartPublish
    \/ AcceptError
    \/ StopCall
    \/ \E h \in Handlers : AcceptConn(h) \/ HandleConnection(h)

SpecServe == InitServe /\ [][NextServe]_vars

-----------------------------------------------------------------------------
(* SpecMain: main from flag.Parse to the exit of the process *)

\* sigChan := make(chan os.Signal, 1)
SigCap == 1

Modes == {"normal", "setup", "cleanup"}

\* the checks main and cleanupAndExit make before they touch the kernel, and
\* the step that follows each
PreflightSteps ==
    {"load", "parse", "port", "checkRoot", "checkAvail", "cCheckRoot"}
AfterStep(pc) ==
    CASE pc = "load" -> "parse"
      [] pc = "parse" -> "port"
      [] pc = "port" -> "checkRoot"
      [] pc = "checkRoot" -> "checkAvail"
      [] pc = "checkAvail" -> "setup"
      [] pc = "cCheckRoot" -> "cCleanup"

InitMain ==
    /\ rules = <<>>
    /\ query = NoQuery
    /\ result = NoResult
    /\ ParkConn
    /\ ParkHTTP
    /\ ParkParse
    /\ creds = [ruid |-> 0, euid |-> 0]
    /\ kernel \in {CleanKernel,
                   [table |-> LeftoverTable(creds), rule |-> TRUE,
                    route |-> TRUE]}
    /\ pkt = NoPkt
    /\ \E mode \in Modes :
          /\ proc = NewProc(mode)
          /\ mgr = IF mode = "cleanup"
                   THEN NewManager(0, <<>>, creds)
                   ELSE NewManager(CHOOSE p \in ListenPorts : TRUE,
                                   DefaultPorts, creds)
    /\ tp = NewTransparentProxy
    /\ hs = [h \in Handlers |-> FreeHandler]

\* os.Exit(1), or the return of main
Exit(p, how) == [p EXCEPT !.pc = "exited", !.exit = how]

\* flag.Parse and the branch on -cleanup
MainFlags ==
    /\ Running
    /\ proc.pc = "flags"
    /\ proc' = [proc EXCEPT
                  !.pc = IF proc.mode = "cleanup" THEN "cCheckRoot" ELSE "load"]
    /\ UNCHANGED <<matchVars, connVars, mgrVars, http, tp, hs>>

\* a main that logs a failed check and goes on
CheckedIgnored(p, ok, next) ==
    [p EXCEPT !.pc = next, !.failedAt = IF ok THEN @ ELSE p.pc]

\* `if err != nil { slog.Error(...); os.Exit(1) }` after a check
Checked(p, ok, next) ==
    IF ok THEN [p EXCEPT !.pc = next]
    ELSE [Exit(p, "exit1") EXCEPT !.failedAt = p.pc]

\* config.Load, rules.ParseRules, proxy.GetListenPort, iptables.CheckRoot,
\* iptables.CheckAvailable; CheckRoot in cleanupAndExit
Preflight ==
    /\ Running
    /\ proc.pc \in PreflightSteps
    /\ \E ok \in BOOLEAN : proc' = Checked(proc, ok, AfterStep(proc.pc))
    /\ UNCHANGED <<matchVars, connVars, mgrVars, http, tp, hs>>

\* iptMgr.Setup() is called
MainSetup ==
    /\ Running
    /\ proc.pc = "setup"
    /\ mgr.op = "none"
    /\ SetupCall

\* the steps of the Setup or Cleanup call main is waiting in
ManagerStep ==
    /\ Running
    /\ \/ NewConn \/ CleanupExisting \/ RuleAdd \/ LinkByName \/ RouteAdd
       \/ BuildTable \/ Flush \/ RuleDel \/ RouteDel

\* a main that starts the proxy whatever Setup returned
AfterSetupIgnored(p, ok) ==
    [p EXCEPT !.pc = IF p.mode = "setup" THEN "exited" ELSE "notify",
              !.exit = IF p.mode = "setup" THEN "return" ELSE @,
              !.setup = IF ok THEN "ok" ELSE "failed"]

\* lines 95-104: exit on Setup's error, return in -setup mode, else go on
AfterSetup(p, ok) ==
    IF ~ok
    THEN [Exit(p, "exit1") EXCEPT !.failedAt = "setup", !.setup = "failed"]
    ELSE IF p.mode = "setup"
         THEN [Exit(p, "return") EXCEPT !.setup = "ok"]
         ELSE [p EXCEPT !.pc = "notify", !.setup = "ok"]

\* Setup has returned to main
MainSetupReturn ==
    /\ Running
    /\ proc.pc = "setup"
    /\ mgr.pc = "idle"
    /\ mgr.op = "setup"
    /\ proc' = AfterSetup(proc, mgr.result = "ok")
    /\ UNCHANGED <<matchVars, connVars, mgrVars, http, tp, hs>>

\* sigChan := make(chan os.Signal, 1); signal.Notify(sigChan, SIGINT,
\* SIGTERM); the defer of Cleanup; NewTransparentProxy
MainNotify ==
    /\ Running
    /\ proc.pc = "notify"
    /\ proc' = [proc EXCEPT !.pc = "go", !.notify = TRUE]
    /\ UNCHANGED <<matchVars, connVars, mgrVars, http, tp, hs>>

\* go func() { tp.Start() ... }()
MainGo ==
    /\ Running
    /\ proc.pc = "go"
    /\ proc' = [proc EXCEPT !.pc = "wait"]
    /\ tp' = [tp EXCEPT !.start = "listen"]
    /\ UNCHANGED <<matchVars, connVars, mgrVars, http, hs>>

\* sig := <-sigChan
MainWait ==
    /\ Running
    /\ proc.pc = "wait"
    /\ proc.sigChan > 0
    /\ proc' = [proc EXCEPT !.pc = "stop", !.sigChan = @ - 1]
    /\ UNCHANGED <<matchVars, connVars, mgrVars, http, tp, hs>>

\* tp.Stop()
MainStop ==
    /\ Running
    /\ proc.pc = "stop"
    /\ Stop
    /\ proc' = [proc EXCEPT !.pc = "deferred"]
    /\ UNCHANGED <<matchVars, connVars, mgrVars, http, hs>>

\* iptMgr.Cleanup() is called: by the deferred function when main returns,
\* or by cleanupAndExit
MainCleanup ==
    /\ Running
    /\ proc.pc \in {"deferred", "cCleanup"}
    /\ mgr.op # "cleanup"
    /\ CleanupCall

\* Cleanup has returned: main, or cleanupAndExit and main, return
MainReturn ==
    /\ Running
    /\ proc.pc \in {"deferred", "cCleanup"}
    /\ mgr.pc = "idle"
    /\ mgr.op = "cleanup"
    /\ proc' = Exit(proc, "return")
    /\ UNCHANGED <<matchVars, connVars, mgrVars, http, tp, hs>>

\* SIGINT or SIGTERM is delivered: to sigChan once signal.Notify has
\* registered it (dropped when the channel is full), else the default
\* action of the signal ends the process
Signal ==
    /\ Running
    /\ proc' = IF proc.notify
               THEN [proc EXCEPT !.sigChan = Min(SigCap, @ + 1)]
               ELSE Exit(proc, "killed")
    /\ UNCHANGED <<matchVars, connVars, mgrVars, http, tp, hs>>

\* lines 121-124: Start returned an error, sigChan <- syscall.SIGTERM
StartFailed ==
    /\ Running
    /\ tp.start = "returned"
    /\ tp.startErr # "nil"
    /\ ~tp.reported
    /\ proc.sigChan < SigCap
    /\ proc' = [proc EXCEPT !.sigChan = @ + 1]
    /\ tp' = [tp EXCEPT !.reported = TRUE]
    /\ UNCHANGED <<matchVars, connVars, mgrVars, http, hs>>

NextMain ==
    \/ MainFlags
    \/ Preflight
    \/ MainSetup
    \/ ManagerStep
    \/ MainSetupReturn
    \/ MainNotify
    \/ MainGo
    \/ MainWait
    \/ MainStop
    \/ MainCleanup
    \/ MainReturn
    \/ Signal
    \/ StartFailed
    \/ StartListen
    \/ StartPublish
    \/ AcceptError
    \/ \E h \in Handlers : AcceptConn(h)

SpecMain == InitMain /\ [][NextMain]_vars

-----------------------------------------------------------------------------
(* SpecRun: the rules of the configuration parsed by ParseRules, given to
   NewMatcher, and used by the handler of an accepted connection *)

MaxRunLines == 2

\* the rule strings of cfg.Rules: a catch-all, a keyword rule, a prefix rule,
\* a suffix rule whose value is blank, and a line whose policy is unknown
RunLines ==
    {<<"M", "A", "T", "C", "H", ",", "d", "i", "r", "e", "c", "t">>,
     <<"D", "O", "M", "A", "I", "N", "-", "K", "E", "Y", "W", "O", "R", "D", ",", "a", ",", "R", "e", "j", "e", "c", "t">>,
     <<"I", "P", "-", "C", "I", "D", "R", ",", "0", "/", "0", ",", "P", "R", "O", "X", "Y">>,
     <<"D", "O", "M", "A", "I", "N", "-", "S", "U", "F", "F", "I", "X", ",", " ", ",", "R", "E", "J", "E", "C", "T">>,
     <<"M", "A", "T", "C", "H", ",", "I", "N", "V", "A", "L", "I", "D">>}
RunLineLists == UNION {[1..n -> RunLines] : n \in 0..MaxRunLines}

InitRun ==
    /\ rules = <<>>
    /\ query = NoQuery
    /\ result = NoResult
    /\ upstream \in {"nil", "http"}
    /\ conns = [c \in Conns |-> IdleConn]
    /\ ParkMgr
    /\ ParkHTTP
    /\ ParkSrv
    /\ \E ls \in RunLineLists :
          parse = [NoParse EXCEPT !.call = "ParseRules", !.lines = ls]

\* main lines 66-73: rules.ParseRules(cfg.Rules), os.Exit(1) on its error,
\* else NewMatcher(parsedRules)
LoadRules ==
    /\ parse.call = "ParseRules" /\ ~parse.done
    /\ LET all == ParseRules(parse.lines) IN
       /\ parse' = [parse EXCEPT !.done = TRUE, !.all = all]
       /\ rules' = IF all.err = "nil" THEN all.rules ELSE rules
    /\ UNCHANGED <<query, result, connVars, mgrVars, srvVars, http>>

\* the matcher exists: the rules were parsed without an error
Loaded == parse.done /\ parse.all.err = "nil"

\* the steps of the proxy once the matcher exists
RunStep == Loaded /\ NextConn

NextRun == LoadRules \/ RunStep

SpecRun == InitRun /\ [][NextRun]_vars

----------------------------------------------------------------------------
(* SpecParse: one ParseRule call on a line, or one ParseRules call on a list *)

InitParse ==
    /\ rules = <<>>
    /\ query = NoQuery
    /\ result = NoResult
    /\ ParkConn
    /\ ParkMgr
    /\ ParkHTTP
    /\ ParkSrv
    /\ \/ \E fs \in LineFields :
             parse = [NoParse EXCEPT !.call = "ParseRule", !.fields = fs]
       \/ \E ls \in LineLists :
             parse = [NoParse EXCEPT !.call = "ParseRules", !.lines = ls]

\* ParseRule(ruleStr)
CallParseRule ==
    /\ parse.call = "ParseRule" /\ ~parse.done
    /\ parse' = [parse EXCEPT !.done = TRUE,
                              !.one = ParseRule(Join(parse.fields))]
    /\ UNCHANGED <<rules, query, result, connVars, mgrVars, srvVars, http>>

\* ParseRules(ruleStrings)
CallParseRules ==
    /\ parse.call = "ParseRules" /\ ~parse.done
    /\ parse' = [parse EXCEPT
                   !.done = TRUE,
                   !.all = ParseRules([i \in 1..Len(parse.lines) |->
                                          Join(parse.lines[i])])]
    /\ UNCHANGED <<rules, query, result, connVars, mgrVars, srvVars, http>>

NextParse == CallParseRule \/ CallParseRules

SpecParse == InitParse /\ [][NextParse]_vars

----------------------------------------------------------------------------
(* SpecMatch: NewMatcher on a rule list, then Match calls *)

\* NewMatcher(rules)
InitMatch ==
    /\ rules \in RuleLists
    /\ query = NoQuery
    /\ result = NoResult
    /\ ParkConn
    /\ ParkMgr
    /\ ParkHTTP
    /\ ParkParse
    /\ ParkSrv

\* m.Match(domain, ip): one call in each behaviour (Match keeps no state)
DoMatch ==
    \E d \in Domains, ip \in IPs :
        /\ ~query.asked
        /\ query' = [domain |-> d, ip |-> ip, asked |-> TRUE]
        /\ result' = Match(rules, d, ip)
        /\ UNCHANGED <<rules, parse, connVars, mgrVars, srvVars, http>>

NextMatch == DoMatch

SpecMatch == InitMatch /\ [][NextMatch]_vars

----------------------------------------------------------------------------
(* Claims about the matcher *)

\* the positions of the rules that match the last query
Matching == {i \in 1..Len(rules) : matchRule(rules[i], ToLower(query.domain), query.ip)}

\* C1: Match evaluates the rules in declaration order and returns the policy
\* and the rule of the first rule that matches (domain, ip): whenever some
\* rule matches, the returned rule is the matching rule of least position and
\* the policy is that rule's policy, whatever later rules match.
C1_FirstMatchWins ==
    (query.asked /\ Matching # {}) =>
        /\ result.Rule \in Matching
        /\ \A j \in Matching : result.Rule <= j
        /\ result.Policy = rules[result.Rule].Policy

\* C1 witness: two rules with different policies both match and the first won
C1_Witness ==
    /\ query.asked
    /\ Len(rules) = 2
    /\ Matching = {1, 2}
    /\ rules[1].Policy = PolicyProxy
    /\ rules[2].Policy = PolicyDirect
    /\ rules[1].Type = RuleTypeDomainSuffix
    /\ rules[2].Type = RuleTypeIPCIDR
    /\ result = [Policy |-> PolicyProxy, Rule |-> 1]

\* C2: when the rule list is empty or no rule matches, Match returns DIRECT
\* with no matched rule; a result without a matched rule is never REJECT or
\* PROXY.
C2_DefaultDirect ==
    query.asked =>
        /\ (Matching = {} => result = [Policy |-> PolicyDirect, Rule |-> NoRule])
        /\ (result.Rule = NoRule => result.Policy = PolicyDirect /\ Matching = {})

\* C2 witness: a non-empty list of REJECT / PROXY rules none of which matches
C2_Witness ==
    /\ query.asked
    /\ Len(rules) = 2
    /\ \A i \in 1..2 : rules[i].Policy # PolicyDirect
    /\ Matching = {}
    /\ query.domain # <<>>
    /\ query.ip # NilIP
    /\ result = [Policy |-> PolicyDirect, Rule |-> NoRule]

\* the first rule of the list decided the last query
FirstMatched == query.asked /\ Len(rules) >= 1 /\ result.Rule = 1
FirstIs(t) == query.asked /\ Len(rules) >= 1 /\ rules[1].Type = t

\* d ends with "." followed by v, letter case ignored
EndsWithLabel(d, v) ==
    /\ Len(d) > Len(v)
    /\ d[Len(d) - Len(v)] = "."
    /\ ToLower(SubSeq(d, Len(d) - Len(v) + 1, Len(d))) = ToLower(v)

\* C15: a DOMAIN-SUFFIX rule with value v matches domain d exactly when d
\* equals v or d ends with "." followed by v, letter case ignored: b.a and a
\* match value a, ba does not.
C15_SuffixMatch ==
    FirstIs(RuleTypeDomainSuffix) =>
        (FirstMatched <=>
            \/ ToLower(query.domain) = ToLower(rules[1].Value)
            \/ EndsWithLabel(query.domain, rules[1].Value))

\* C15 witness: a suffix rule written with an upper-case letter has matched a
\* lower-case domain with one more label in front
C15_Witness ==
    /\ FirstIs(RuleTypeDomainSuffix) /\ FirstMatched
    /\ rules[1].Value = <<"B", ".", "a">>
    /\ query.domain = <<"b", ".", "a">>

\* the addresses of the prefix of network n
PrefixAddrs(n) ==
    LET low == Pow2(AddrBits - n.bits)
        first == n.base - (n.base % low)
    IN {first + k : k \in 0..(low - 1)}

\* ip lies inside the prefix of network n
Inside(ip, n) == ip.fam = n.fam /\ ip.addr \in PrefixAddrs(n)

\* C16: an IP-CIDR / IP-CIDR6 rule matches exactly when the IP is non-nil,
\* the rule carries a prefix and the IP lies inside it; when it does not
\* match, the rules after it decide.
C16_CIDRMatch ==
    (FirstIs(RuleTypeIPCIDR) \/ FirstIs(RuleTypeIPCIDR6)) =>
        /\ FirstMatched <=>
              /\ query.ip # NilIP
              /\ rules[1].Network # NilNet
              /\ Inside(query.ip, rules[1].Network)
        /\ (~FirstMatched /\ Len(rules) >= 2 /\ rules[2].Type = RuleTypeMatch)
              => result = [Policy |-> rules[2].Policy, Rule |-> 2]

\* C16 witness: an address outside the prefix of the first rule fell through
\* to a MATCH rule behind it
C16_Witness ==
    /\ FirstIs(RuleTypeIPCIDR)
    /\ rules[1].Network = MkNet("v4", 2, 1)
    /\ query.ip = MkIP("v4", 0)
    /\ Len(rules) = 2 /\ rules[2].Type = RuleTypeMatch
    /\ result.Rule = 2

\* v occurs in d as a substring, letter case ignored
Occurs(d, v) ==
    \E i \in 0..(Len(d) - Len(v)) :
        \A j \in 1..Len(v) : LowerCh(d[i + j]) = LowerCh(v[j])

\* C17: a DOMAIN rule matches exactly when the domain equals the rule value
\* with letter case ignored, a DOMAIN-KEYWORD rule exactly when the value
\* occurs in the domain with letter case ignored, a MATCH rule always.
C17_DomainKeywordMatch ==
    /\ FirstIs(RuleTypeDomain) =>
          (FirstMatched <=> ToLower(query.domain) = ToLower(rules[1].Value))
    /\ FirstIs(RuleTypeDomainKeyword) =>
          (FirstMatched <=> Occurs(query.domain, rules[1].Value))
    /\ FirstIs(RuleTypeMatch) => FirstMatched

\* C17 witness: a DOMAIN rule written with an upper-case letter has matched
\* the domain in lower case
C17_Witness ==
    /\ FirstIs(RuleTypeDomain) /\ FirstMatched
    /\ rules[1].Value = <<"B", ".", "a">>
    /\ query.domain = <<"b", ".", "a">>


----------------------------------------------------------------------------
(* Claims about the redirection manager *)

\* Setup or Cleanup has returned
Returned(o, r) == mgr.pc = "idle" /\ mgr.op = o /\ mgr.result = r

\* nothing that was absent in kernel state k0 is present now
NothingLeftSince(k0) ==
    /\ kernel.table.present => k0.table.present
    /\ kernel.rule => k0.rule
    /\ kernel.route => k0.route

\* the state a Setup from a clean kernel ends in
InstalledKernel ==
    [table |-> [present |-> TRUE, chain |-> TRUE,
                rules |-> OutputRules(mgr.proxyUID, mgr.ports, mgr.listenPort)],
     rule |-> TRUE, route |-> TRUE]

\* C5: Setup followed immediately by Cleanup, both successful and with every
\* kernel call answering, leaves no table, ip rule or route that was not
\* there before the Setup.
C5_SetupCleanupRestores ==
    (/\ mgr.pc = "idle"
     /\ mgr.hist = << <<"setup", "ok", FALSE>>, <<"cleanup", "ok", FALSE>> >>)
        => NothingLeftSince(mgr.snap)

\* C6: when a step of Setup fails and Setup returns the error, every piece
\* of kernel state that call applied is rolled back: no table, ip rule or
\* route that was not there before the call is left.
C6_FailedSetupRollsBack ==
    Returned("setup", "err") => NothingLeftSince(mgr.snap)

\* C7: Cleanup succeeds when the table, the ip rule and the route are already
\* absent, and on a fresh Manager (Setup never run on it) it opens its own
\* connection and removes the state an earlier process left.
C7_CleanupTolerant ==
    (Returned("cleanup", mgr.result) /\ ~mgr.fault) =>
        /\ mgr.before = CleanKernel => mgr.result = "ok"
        /\ (mgr.setups = 0 /\ mgr.ops = 1) =>
              /\ mgr.ownConn
              /\ mgr.result = "ok"
              /\ kernel = CleanKernel

\* C8: from any combination of a leftover table, ip rule and route, a
\* successful Setup ends in the state a Setup from a clean kernel ends in:
\* one table, one output chain with one redirect rule per target port, the
\* ip rule and the route.
C8_SetupIdempotent ==
    Returned("setup", "ok") => kernel = InstalledKernel

\* C9: every rule Setup installs excludes the packets of sockets owned by the
\* effective user id of the proxy process, so a packet of the proxy itself is
\* never redirected, while a TCP packet of any other user id to a target port
\* is marked and redirected to the listening port.
C9_ProxyTrafficExcluded ==
    (Returned("setup", "ok") /\ ~mgr.fault) =>
        /\ \A i \in 1..Len(kernel.table.rules) :
              kernel.table.rules[i].skuidNeq = creds.euid
        /\ pkt.seen =>
              /\ pkt.skuid = creds.euid => pkt.verdict = "accept"
              /\ (/\ pkt.proto = ProtoTCP
                  /\ pkt.skuid # creds.euid
                  /\ \E i \in 1..Len(mgr.ports) : mgr.ports[i] = pkt.dport)
                    => /\ pkt.verdict = "redirect"
                       /\ pkt.to = mgr.listenPort
                       /\ pkt.mark = fwMark

----------------------------------------------------------------------------
(* Claims about the connection handler *)

\* C3: when the matched policy of a connection is REJECT the handler closes
\* the client socket without calling DirectConnect or Upstream.Connect and
\* without starting Relay: no server socket is opened, no copy task runs and
\* no byte is forwarded in either direction.
C3_RejectShortCircuits ==
    \A c \in Conns :
        conns[c].policy = PolicyReject =>
            /\ conns[c].dial = "none"
            /\ conns[c].server = "none"
            /\ conns[c].up = "none" /\ conns[c].down = "none"
            /\ conns[c].fwdUp = 0 /\ conns[c].fwdDown = 0
            /\ conns[c].pc \in {"connect", "closeClient", "done"}
            /\ (conns[c].pc = "done" => conns[c].client = "closed")

\* C3 witness: a rejected connection whose client had sent a byte: the
\* handler has returned, the socket is closed and the byte went nowhere
C3_Witness ==
    \E c \in Conns :
        /\ conns[c].policy = PolicyReject
        /\ conns[c].pc = "done"
        /\ conns[c].client = "closed"
        /\ conns[c].cin > 0
        /\ conns[c].dial = "none"

\* the handler of c has gone past the switch on the policy
PastConnect(c) == conns[c].pc \notin {"idle", "recover", "lookup", "match", "connect"}

\* C19: a PROXY connection without a configured upstream is dialled directly,
\* as DIRECT is, and is not failed for the missing upstream; with an upstream
\* configured a PROXY connection goes through Upstream.Connect and is never
\* dialled directly.
C19_ProxyFallsBackToDirect ==
    \A c \in Conns :
        conns[c].policy = PolicyProxy =>
            /\ PastConnect(c) => conns[c].dial # "none"
            /\ conns[c].dial # "none" =>
                  conns[c].dial = IF upstream = "nil" THEN "direct" ELSE "upstream"
            /\ conns[c].failed = "connect" => conns[c].dialed = "err"

\* C19 witness: a PROXY connection without an upstream was dialled directly
\* and a byte of the client was forwarded to the target
C19_Witness ==
    \E c \in Conns :
        /\ conns[c].policy = PolicyProxy
        /\ upstream = "nil"
        /\ conns[c].dial = "direct"
        /\ conns[c].fwdUp > 0

\* C20: a failed or empty reverse lookup never fails the connection: the
\* domain is empty, the rules are matched on the IP alone, and for DIRECT
\* and PROXY the connection is relayed exactly when the dial or the tunnel
\* handshake succeeded.
C20_LookupNeverFatal ==
    \A c \in Conns :
        conns[c].lookup \in {"error", "empty"} =>
            /\ conns[c].domain = <<>>
            /\ conns[c].pc # "lookup"
            /\ conns[c].failed # "recover"
            /\ conns[c].policy # "none" =>
                  conns[c].policy = Match(rules, <<>>, conns[c].origDst).Policy
            /\ conns[c].dialed = "ok" =>
                  /\ conns[c].failed = "no"
                  /\ conns[c].server # "none"
                  /\ conns[c].pc # "connect"
            /\ conns[c].dialed = "err" =>
                  /\ conns[c].failed = "connect"
                  /\ conns[c].up = "none" /\ conns[c].down = "none"

\* C20 witness: the lookup returned an error, the connection was dialled and
\* a byte of the client was relayed
C20_Witness ==
    \E c \in Conns :
        /\ conns[c].lookup = "error"
        /\ conns[c].dialed = "ok"
        /\ conns[c].fwdUp > 0

\* a copy direction of connection c has finished (EOF or error)
CopyFinished(c) ==
    \/ conns[c].up \in {"signal", "exit"}
    \/ conns[c].down \in {"signal", "exit"}

BothClosed(c) == conns[c].client = "closed" /\ conns[c].server = "closed"

\* C4: once a connection is relaying, when either copy direction finishes
\* Relay returns and the handler closes both the client and the server
\* socket, also when the other direction never sends and never closes.
C4_RelayHalfClose ==
    \A c \in Conns : CopyFinished(c) ~> BothClosed(c)

\* C4 witness: the client-to-server copy ended on the client's EOF, both
\* sockets are closed, and the server peer never sent a byte nor closed
C4_Witness ==
    \E c \in Conns :
        /\ conns[c].up = "exit"
        /\ conns[c].cpeer = "eof"
        /\ conns[c].speer = "open"
        /\ conns[c].sin = 0 /\ conns[c].fwdDown = 0
        /\ conns[c].pc = "done"
        /\ BothClosed(c)

\* C21: when the recovery of the original destination fails the handler
\* ends: the client socket is closed, and there is no lookup, no rule
\* matching, no dial, no relay and no second recovery.
C21_RecoveryFailureTerminal ==
    \A c \in Conns :
        conns[c].failed = "recover" =>
            /\ conns[c].pc \in {"closeClient", "done"}
            /\ conns[c].lookup = "none"
            /\ conns[c].policy = "none"
            /\ conns[c].dial = "none" /\ conns[c].server = "none"
            /\ conns[c].up = "none" /\ conns[c].down = "none"
            /\ conns[c].fwdUp = 0 /\ conns[c].fwdDown = 0
            /\ conns[c].pc = "done" => conns[c].client = "closed"

\* C21 witness: the recovery failed for a connection whose client had sent
\* a byte; the handler has returned with the socket closed
C21_Witness ==
    \E c \in Conns :
        /\ conns[c].failed = "recover"
        /\ conns[c].pc = "done"
        /\ conns[c].client = "closed"
        /\ conns[c].cin > 0

\* both copy tasks of connection c have ended
CopiesExited(c) == conns[c].up = "exit" /\ conns[c].down = "exit"

\* C28: once the handler has closed both sockets of a relayed connection,
\* the copy direction that was still running ends and both copy tasks get
\* past their send on the completion channel, which holds both signals
\* although Relay receives one.
C28_CopyTasksEnd ==
    \A c \in Conns :
        (BothClosed(c) /\ conns[c].up # "none") ~> CopiesExited(c)

\* C28 witness: the connection is over, both copy tasks have ended, the
\* server peer never closed its side (the copy from it ended on the close
\* of the socket), and the second signal stays in the channel
C28_Witness ==
    \E c \in Conns :
        /\ conns[c].pc = "done"
        /\ BothClosed(c)
        /\ CopiesExited(c)
        /\ conns[c].cpeer = "eof"
        /\ conns[c].speer = "open"
        /\ conns[c].done = 1

----------------------------------------------------------------------------
(* Claims about the HTTP-CONNECT tunnel *)

\* the payload bytes the upstream has sent so far, after its header
PayloadSent ==
    SubSeq(UpstreamStream(http.status),
           Len(ResponseHeader(http.status)) + 1, http.upSent)

\* C10: after a successful handshake the bytes the reads on the returned
\* stream deliver are the bytes the upstream sent after its response header,
\* in order, none lost and none twice, the bytes read ahead into the header
\* parser's buffer included: what was delivered, then what the reader still
\* buffers, then what the socket still holds, is what the upstream sent.
C10_TunnelKeepsReadAhead ==
    http.pc = "tunnel" =>
        /\ http.got \o http.buf \o http.wire = PayloadSent
        /\ (http.eof => http.got = PayloadSent)

\* C10 witness: a payload byte was read ahead while the header was parsed,
\* the caller has read twice and has every payload byte
C10_Witness ==
    /\ http.pc = "tunnel"
    /\ http.ahead > 0
    /\ http.reads = 2
    /\ http.got = Payload
    /\ Len(Payload) >= 2

\* a status code of the 2xx class
Is2xx(code) == code \div 100 = 2

\* connectHTTP has returned after it read the whole response header
HeaderRead ==
    /\ http.pc \in {"tunnel", "failed"}
    /\ http.parsed = Len(ResponseHeader(http.status))

\* C11: once the response header is read, Connect returns a tunnel stream
\* exactly when the status is 2xx; for any other status it returns no
\* stream, closes the connection and returns an error naming the status.
C11_FailsExactlyOnNon2xx ==
    HeaderRead =>
        /\ Is2xx(http.status) <=> http.pc = "tunnel"
        /\ http.pc = "failed" =>
              /\ http.err = Err("status", http.status)
              /\ http.conn = "closed"

----------------------------------------------------------------------------
(* Claims about the rule parser *)

\* ParseRule has returned / ParseRules has returned
ParsedOne == parse.call = "ParseRule" /\ parse.done
ParsedAll == parse.call = "ParseRules" /\ parse.done

CIDRTypes == {RuleTypeIPCIDR, RuleTypeIPCIDR6}
ValueTypes == {RuleTypeDomain, RuleTypeDomainSuffix, RuleTypeDomainKeyword,
               RuleTypeIPCIDR, RuleTypeIPCIDR6}

\* the line written by fs has one of the two accepted shapes, MATCH,<POLICY>
\* or <TYPE>,<VALUE>,<POLICY>, with a recognized type and policy
Shaped(fs) ==
    \/ /\ Len(fs) = 2
       /\ fs[1].canon = RuleTypeMatch
       /\ fs[2].canon \in Policies
    \/ /\ Len(fs) = 3
       /\ fs[1].canon \in ValueTypes
       /\ fs[3].canon \in Policies

\* ... and the value of a line of a CIDR type is a valid prefix
WellFormed(fs) ==
    /\ Shaped(fs)
    /\ fs[1].canon \in CIDRTypes => fs[2].network # NilNet

\* the rule a shaped line denotes
Denoted(fs, r) ==
    /\ r.Type = fs[1].canon
    /\ r.Policy = fs[Len(fs)].canon
    /\ r.Value = IF fs[1].canon = RuleTypeMatch THEN <<>> ELSE fs[2].trim

\* C12: ParseRule returns an error and no rule for every malformed line: a
\* field count other than 2 for MATCH and 3 for the other types, an
\* unrecognized type, a policy other than PROXY/DIRECT/REJECT, a CIDR value
\* that is no valid prefix.
C12_RejectsMalformed ==
    (ParsedOne /\ ~WellFormed(parse.fields)) =>
        /\ parse.one.err # "nil"
        /\ parse.one.rule = NilRule

\* C13 as stated: every line of one of the two shapes with a recognized type
\* and policy parses.
C13_ShapedParses ==
    (ParsedOne /\ Shaped(parse.fields)) =>
        /\ parse.one.err = "nil"
        /\ Denoted(parse.fields, parse.one.rule)

\* C13: every well-formed line (MATCH,<POLICY> or <TYPE>,<VALUE>,<POLICY>,
\* type and policy recognized in any letter case, whitespace around the
\* fields, and a valid prefix as the value of an IP-CIDR / IP-CIDR6 line)
\* parses to the rule with the canonical uppercase type and policy and the
\* trimmed value, empty for MATCH.
C13_WellFormedParses ==
    (ParsedOne /\ WellFormed(parse.fields)) =>
        /\ parse.one.err = "nil"
        /\ Denoted(parse.fields, parse.one.rule)

\* C13 witness: a parsed three-field line whose value is written with
\* whitespace around it and whose policy is not written in upper case
C13_Witness ==
    /\ ParsedOne /\ WellFormed(parse.fields)
    /\ Len(parse.fields) = 3
    /\ parse.fields[2].text # parse.fields[2].trim
    /\ Cat(parse.fields[3].text) # parse.fields[3].canon
    /\ parse.one.err = "nil"

\* the positions of the lines of the list that are not well-formed
BadLines == {i \in 1..Len(parse.lines) : ~WellFormed(parse.lines[i])}

\* C14: ParseRules stops at the first invalid line of the list, returns an
\* error naming its 1-based position and no rules at all; when every line is
\* valid it returns one rule per line, in the order of the lines.
C14_ParseRulesFirstInvalid ==
    ParsedAll =>
        IF BadLines # {}
        THEN /\ parse.all.err # "nil"
             /\ parse.all.pos \in BadLines
             /\ \A i \in BadLines : parse.all.pos <= i
             /\ parse.all.isNil
        ELSE /\ parse.all.err = "nil"
             /\ ~parse.all.isNil
             /\ Len(parse.all.rules) = Len(parse.lines)
             /\ \A i \in 1..Len(parse.lines) :
                   Denoted(parse.lines[i], parse.all.rules[i])

\* C18: a rule ParseRule returns carries a prefix exactly when its type is
\* IP-CIDR or IP-CIDR6.
C18_NetworkIffCIDR ==
    (ParsedOne /\ parse.one.err = "nil") =>
        (parse.one.rule.Network # NilNet <=> parse.one.rule.Type \in CIDRTypes)

\* C18 witness: a returned IP-CIDR6 rule with its prefix, the address bits
\* after the prefix length cleared
C18_Witness ==
    /\ ParsedOne /\ parse.one.err = "nil"
    /\ parse.one.rule.Type = RuleTypeIPCIDR6
    /\ parse.one.rule.Network = parse.fields[2].network
    /\ parse.one.rule.Network # NilNet

\* C27: when the handler has returned, whatever the path, the client socket
\* is closed and so is every socket opened towards the target or the
\* upstream proxy, the one of an HTTP-CONNECT handshake that failed on its
\* write, read or status included.
C27_NoSocketLeftOpen ==
    \A c \in Conns :
        conns[c].pc = "done" =>
            /\ conns[c].client = "closed"
            /\ conns[c].server # "open"
            /\ http.conn # "open"

\* C27 witness: the upstream proxy was reached and refused the CONNECT; the
\* handler has returned with the client socket and the proxy connection closed
C27_Witness ==
    \E c \in Conns :
        /\ conns[c].pc = "done"
        /\ conns[c].dial = "upstream"
        /\ http.err.step = "status"
        /\ http.conn = "closed"
        /\ conns[c].client = "closed"

-----------------------------------------------------------------------------
(* Claims about the accept loop and the handlers it starts *)

\* the handler's connection failed in this step
FailsNow(h) == hs[h].failed = "no" /\ hs'[h].failed # "no"

\* C22: a per-connection failure (destination recovery, direct dial or
\* tunnel handshake) touches only its own connection: the step leaves the
\* listener and every other handler as they were, the failed handler does
\* nothing more than close its client socket (no second dial, no return to
\* an earlier step), and its client socket is closed when it ends
C22_FailureIsolated ==
    /\ [][\A h \in Handlers :
            FailsNow(h) =>
                /\ tp' = tp
                /\ \A g \in Handlers \ {h} : hs'[g] = hs[g]
                /\ hs'[h].pc = "closeClient"]_vars
    /\ [](\A h \in Handlers :
            hs[h].failed # "no" =>
                /\ hs[h].pc \in {"closeClient", "done"}
                /\ hs[h].server = "none"
                /\ hs[h].pc = "done" => hs[h].client = "closed")

\* a connection failed and was closed, and a connection accepted after that
\* failure is being relayed while the loop still accepts
C22_Witness ==
    \E h, g \in Handlers :
        /\ hs[h].failed \in {"recover", "direct", "upstream"}
        /\ hs[h].pc = "done"
        /\ hs[h].client = "closed"
        /\ hs[g].pc = "relay"
        /\ hs[g].born > hs[h].failedAt
        /\ tp.start = "accept"

\* C23: after a temporary accept error Start is still in its accept loop,
\* after any other accept error Start has returned that error, and once
\* Start has returned it stays returned and accepts nothing more
C23_AcceptErrors ==
    /\ [](/\ tp.last = "temporary" => tp.start = "accept"
          /\ tp.last \in {"fatal", "closed"} =>
                tp.start = "returned" /\ tp.startErr = "accept")
    /\ [][tp.start = "returned" =>
            tp'.start = "returned" /\ tp'.accepted = tp.accepted]_vars

\* a connection was accepted after a temporary accept error
C23_Witness ==
    /\ tp.temporary > 0
    /\ tp.accepted = 1
    /\ tp.last = "conn"

\* C26: no step changes the matcher's rule list or the upstream descriptor,
\* and whatever the interleaving of the handlers' Match calls, each call
\* returns the policy Match returns when it runs alone
C26_SharedReadOnly ==
    /\ [][rules' = rules /\ upstream' = upstream]_vars
    /\ [](\A h \in Handlers :
            hs[h].policy # "none" =>
                hs[h].policy = Match(rules, hs[h].domain, hs[h].ip).Policy)

\* one call has returned a rule's policy while another call, on another
\* destination, is in the middle of its loop
C26_Witness ==
    \E h, g \in Handlers :
        /\ hs[h].pc = "match"
        /\ hs[h].i > 1
        /\ hs[g].pc = "connect"
        /\ hs[g].i > 1
        /\ hs[g].ip # hs[h].ip
        /\ hs[g].born > hs[h].born

\* C29: after Stop has returned, the accept loop accepts no connection
C29_StopStopsListener == tp.stop = "returned" => ~tp.late

\* Stop found the listener and closed it before any late accept
C29_StopClosed == tp.stop = "returned" /\ tp.saw = "set" => ~tp.late

-----------------------------------------------------------------------------
(* Claims about main *)

\* Manager.Setup or Manager.Cleanup has been called
SetupInvoked == mgr.setups > 0
CleanupInvoked == mgr.op = "cleanup"

\* C24: when configuration loading, rule parsing, listen-port parsing, the
\* privilege check or the availability check fails (the privilege check of
\* -cleanup mode included), the process exits with neither Setup nor
\* Cleanup called and no listener started, and no step up to the end of the
\* checks changes the kernel's firewall or routing state
C24_PreflightBeforeKernel ==
    /\ [](proc.failedAt \in PreflightSteps =>
            /\ proc.exit = "exit1"
            /\ ~SetupInvoked
            /\ ~CleanupInvoked
            /\ mgr.pc = "idle"
            /\ tp.start = "none")
    /\ [][proc.pc \in PreflightSteps \cup {"flags"} \/ proc.failedAt \in PreflightSteps
            => kernel' = kernel]_vars

\* -cleanup mode ended at its failed privilege check, on a kernel that holds
\* the redirection
C24_Witness ==
    /\ proc.mode = "cleanup"
    /\ proc.failedAt = "cCheckRoot"
    /\ proc.exit = "exit1"
    /\ kernel.table.present

\* C25: whenever Start has been launched, a listening socket exists or a
\* connection has been accepted, Setup has been called exactly once, was the
\* manager's first call, and returned success to main
C25_ListenAfterSetup ==
    (tp.start # "none" \/ tp.sock # "none" \/ tp.accepted > 0) =>
        /\ proc.setup = "ok"
        /\ mgr.setups = 1
        /\ Len(mgr.hist) > 0
        /\ mgr.hist[1][1] = "setup"
        /\ mgr.hist[1][2] = "ok"

\* a connection was accepted after a successful Setup
C25_Witness ==
    /\ tp.accepted > 0
    /\ proc.setup = "ok"
    /\ proc.exit = "running"

\* C30: in normal mode, a process that has ended after Setup succeeded has
\* called Cleanup
C30_CleanupBeforeExit ==
    (proc.mode = "normal" /\ proc.setup = "ok" /\ proc.exit # "running")
        => CleanupInvoked

\* the same for the endings that come after signal.Notify
C30_CleanupAfterNotify ==
    (proc.mode = "normal" /\ proc.notify /\ proc.exit # "running")
        => CleanupInvoked


-----------------------------------------------------------------------------
(* Claims about the kernel state while the manager works *)

\* the redirect table is installed only together with the fwmark ip rule
RedirectHasRule(k) == k.table.present => k.rule

\* C31: during and after a Setup or Cleanup call that began in a kernel
\* state where the redirect table was not installed without the fwmark ip
\* rule, the table is never installed without the rule
C31_RedirectNeedsRule ==
    (mgr.op # "none" /\ RedirectHasRule(mgr.before)) => RedirectHasRule(kernel)

\* the same, for Setup calls only
C31_SetupKeepsRule ==
    (mgr.op = "setup" /\ RedirectHasRule(mgr.before)) => RedirectHasRule(kernel)


-----------------------------------------------------------------------------
(* Claims about parsed rules in the handler *)

\* C32: for every rule list ParseRules returned, every rule's policy and
\* the policy Match returns for every (domain, ip) is PROXY, DIRECT or
\* REJECT; the handler never meets a policy outside its switch, and past
\* the switch it has either rejected without a connect call or made one
\* connect call, and it is at Relay or at the close of the server socket
\* only with a server connection
C32_PolicyIsOneOfThree ==
    /\ Loaded =>
          /\ \A i \in 1..Len(rules) : rules[i].Policy \in Policies
          /\ \A d \in {<<>>, ResolvedDomain("name")} :
                \A ip \in OrigDsts \cup {NilIP} :
                    Match(rules, d, ip).Policy \in Policies
    /\ \A c \in Conns :
          /\ conns[c].policy # "none" => conns[c].policy \in Policies
          /\ conns[c].pc # "panic"
          /\ (PastConnect(c) /\ conns[c].failed # "recover") =>
                \/ /\ conns[c].policy = PolicyReject
                   /\ conns[c].dial = "none"
                   /\ conns[c].dialed = "none"
                \/ /\ conns[c].policy # PolicyReject
                   /\ conns[c].dial \in {"direct", "upstream"}
                   /\ conns[c].dialed \in {"ok", "err"}
          /\ conns[c].pc \in {"relay", "wait", "closeServer"} =>
                conns[c].server # "none" /\ conns[c].dialed = "ok"
          /\ conns[c].server # "none" => conns[c].dialed = "ok"
          /\ conns[c].dialed = "err" =>
                conns[c].failed = "connect" /\ conns[c].server = "none"

\* a connection that a parsed two-rule list sent to the upstream was relayed
\* and closed
C32_Witness ==
    \E c \in Conns :
        /\ Loaded
        /\ Len(rules) = 2
        /\ conns[c].policy = PolicyProxy
        /\ conns[c].dial = "upstream"
        /\ conns[c].dialed = "ok"
        /\ conns[c].pc = "done"

\* the rule types that look at the domain
DomainTypes == {RuleTypeDomain, RuleTypeDomainSuffix, RuleTypeDomainKeyword}

\* C33: when the handler's domain is empty, the rule of a parsed list that
\* decided the policy, if any did, is an IP-CIDR, IP-CIDR6 or MATCH rule
C33_EmptyDomainByIPOnly ==
    \A c \in Conns :
        (Loaded /\ conns[c].policy # "none" /\ conns[c].domain = <<>>) =>
            LET r == Match(rules, conns[c].domain, conns[c].origDst) IN
            r.Rule # NoRule => rules[r.Rule].Type \notin DomainTypes

\* the same, for the lists whose domain rules have a value that is not empty
C33_ValuedRulesByIPOnly ==
    \A c \in Conns :
        (/\ Loaded /\ conns[c].policy # "none" /\ conns[c].domain = <<>>
         /\ \A i \in 1..Len(rules) :
               rules[i].Type \in DomainTypes => rules[i].Value # <<>>) =>
            LET r == Match(rules, conns[c].domain, conns[c].origDst) IN
            r.Rule # NoRule => rules[r.Rule].Type \notin DomainTypes

====
